---- MODULE Spec2Model ----
(***************************************************************************)
(* Model of the fetcher: URI::parse (src/src/uri.rs), the redirect loop of *)
(* Request::send (src/src/request.rs) and the on-disk cache                *)
(* (src/src/cache.rs).                                                     *)
(*                                                                         *)
(* Text is a sequence of one-character strings, so that splitting,         *)
(* prefix tests and splicing are computed character by character.          *)
(***************************************************************************)
EXTENDS Integers, Sequences, FiniteSets, TLC

\* ------------------------------------------------------------------------
\* Text helpers (Rust str methods used by the code)
\* ------------------------------------------------------------------------

\* str::starts_with
StartsWith(s, p) ==
    /\ Len(p) <= Len(s)
    /\ SubSeq(s, 1, Len(p)) = p

\* str::contains(char)
Contains(s, c) == \E i \in 1..Len(s) : s[i] = c

\* str::find(char): index of the first occurrence, 0 when there is none
FindFirst(s, c) ==
    IF Contains(s, c)
    THEN CHOOSE i \in 1..Len(s) : s[i] = c /\ \A j \in 1..(i - 1) : s[j] # c
    ELSE 0

\* str::rfind(char): index of the last occurrence, 0 when there is none
RFind(s, c) ==
    IF Contains(s, c)
    THEN CHOOSE i \in 1..Len(s) : s[i] = c /\ \A j \in (i + 1)..Len(s) : s[j] # c
    ELSE 0

\* str::split(char): the parts between the occurrences of c (never empty)
RECURSIVE Split(_, _)
Split(s, c) ==
    LET i == FindFirst(s, c)
    IN  IF i = 0
        THEN << s >>
        ELSE << SubSeq(s, 1, i - 1) >> \o Split(SubSeq(s, i + 1, Len(s)), c)

\* split_once at the last occurrence (rsplit_once)
SplitOnceOr_last(s, c) ==
    LET i == RFind(s, c)
    IN  IF i = 0
        THEN << s, << >> >>
        ELSE << SubSeq(s, 1, i - 1), SubSeq(s, i + 1, Len(s)) >>

\* str::split_once(char).unwrap_or((s, ""))
SplitOnceOr(s, c) ==
    LET i == FindFirst(s, c)
    IN  IF i = 0
        THEN << s, << >> >>
        ELSE << SubSeq(s, 1, i - 1), SubSeq(s, i + 1, Len(s)) >>

\* ------------------------------------------------------------------------
\* src/src/uri.rs
\* ------------------------------------------------------------------------

DATA_SCHEME == << "d", "a", "t", "a" >>
FILE_SCHEME == << "f", "i", "l", "e" >>
HTTP_SCHEME == << "h", "t", "t", "p" >>
HTTPS_SCHEME == << "h", "t", "t", "p", "s" >>
VIEWSOURCE_PREFIX == << "v", "i", "e", "w", "-", "s", "o", "u", "r", "c", "e" >>
VIEWSOURCE_HTTP_SCHEME == VIEWSOURCE_PREFIX \o << ":" >> \o HTTP_SCHEME
VIEWSOURCE_HTTPS_SCHEME == VIEWSOURCE_PREFIX \o << ":" >> \o HTTPS_SCHEME

\* HTTP_SCHEMES with the file scheme added
HTTP_SCHEMES_withFile ==
    { HTTPS_SCHEME, HTTP_SCHEME, VIEWSOURCE_HTTPS_SCHEME, VIEWSOURCE_HTTP_SCHEME,
      FILE_SCHEME }

HTTP_SCHEMES ==
    { HTTPS_SCHEME, HTTP_SCHEME, VIEWSOURCE_HTTPS_SCHEME, VIEWSOURCE_HTTP_SCHEME }

SCHEMES ==
    { DATA_SCHEME, FILE_SCHEME, HTTP_SCHEME, HTTPS_SCHEME,
      VIEWSOURCE_HTTPS_SCHEME, VIEWSOURCE_HTTP_SCHEME }

\* from_str giving a view-source scheme the value of the scheme it wraps
URIScheme_from_str_nested(value) ==
    CASE value = DATA_SCHEME -> "Data"
      [] value = FILE_SCHEME -> "File"
      [] value = HTTPS_SCHEME -> "HTTPS"
      [] value = HTTP_SCHEME -> "HTTP"
      [] value = VIEWSOURCE_HTTPS_SCHEME -> "HTTPS"
      [] value = VIEWSOURCE_HTTP_SCHEME -> "HTTP"
      [] OTHER -> "HTTP"

\* URIScheme::from_str
URIScheme_from_str(value) ==
    CASE value = DATA_SCHEME -> "Data"
      [] value = FILE_SCHEME -> "File"
      [] value = HTTPS_SCHEME -> "HTTPS"
      [] value = HTTP_SCHEME -> "HTTP"
      [] value = VIEWSOURCE_HTTPS_SCHEME -> "ViewSourceHTTPS"
      [] value = VIEWSOURCE_HTTP_SCHEME -> "ViewSourceHTTP"
      [] OTHER -> "HTTP"

\* URIScheme::as_str
URIScheme_as_str(scheme) ==
    CASE scheme = "Data" -> DATA_SCHEME
      [] scheme = "File" -> FILE_SCHEME
      [] scheme = "HTTPS" -> HTTPS_SCHEME
      [] scheme = "HTTP" -> HTTP_SCHEME
      [] scheme = "ViewSourceHTTPS" -> VIEWSOURCE_HTTPS_SCHEME
      [] scheme = "ViewSourceHTTP" -> VIEWSOURCE_HTTP_SCHEME

\* scheme_regexp.is_match: ^(http|https|file|data|view-source):/?/?
SchemeRegexpMatches(url) ==
    \E p \in { HTTP_SCHEME, HTTPS_SCHEME, FILE_SCHEME, DATA_SCHEME, VIEWSOURCE_PREFIX } :
        StartsWith(url, p \o << ":" >>)

\* The for loop over url_copy.split(":") followed by scheme_url.push(prev):
\* st = [prev, scheme_found, scheme_url] after the parts i..Len(parts).
RECURSIVE SchemeLoop(_, _, _)
SchemeLoop(parts, i, st) ==
    IF i > Len(parts)
    THEN [ st EXCEPT !.scheme_url = Append(st.scheme_url, st.prev) ]
    ELSE LET prev1 == IF Len(st.prev) > 0
                      THEN st.prev \o << ":" >> \o parts[i]
                      ELSE st.prev \o parts[i]
         IN  IF ~ st.scheme_found /\ prev1 \in SCHEMES
             THEN SchemeLoop(parts, i + 1,
                             [ prev |-> << >>, scheme_found |-> TRUE,
                               scheme_url |-> Append(st.scheme_url, prev1) ])
             ELSE SchemeLoop(parts, i + 1, [ st EXCEPT !.prev = prev1 ])

\* The scheme and the remainder (url_copy) computed by the first half of
\* URI::parse; ok = FALSE when assert!(scheme_found) fails.
ParseScheme(url) ==
    IF SchemeRegexpMatches(url)
    THEN LET st == SchemeLoop(Split(url, ":"), 1,
                              [ prev |-> << >>, scheme_found |-> FALSE,
                                scheme_url |-> << >> ])
         IN  IF ~ st.scheme_found
             THEN [ ok |-> FALSE, scheme |-> HTTP_SCHEME, url_copy |-> url ]
             ELSE LET scheme == st.scheme_url[1]
                      rest == st.scheme_url[2]
                  IN  [ ok |-> TRUE,
                        scheme |-> scheme,
                        url_copy |->
                            IF /\ scheme \in { HTTP_SCHEME, HTTPS_SCHEME, FILE_SCHEME,
                                               VIEWSOURCE_HTTP_SCHEME,
                                               VIEWSOURCE_HTTPS_SCHEME }
                               /\ StartsWith(rest, << "/", "/" >>)
                            THEN SubSeq(rest, 3, Len(rest))
                            ELSE rest ]
    ELSE [ ok |-> TRUE, scheme |-> HTTP_SCHEME, url_copy |-> url ]

\* The default port chosen by scheme == "https"
ContainsHttps_exact(scheme) == scheme = HTTPS_SCHEME

\* scheme.contains("https")
ContainsHttps(scheme) ==
    \E i \in 1..Len(scheme) : StartsWith(SubSeq(scheme, i, Len(scheme)), HTTPS_SCHEME)

\* URI::parse; ok = FALSE stands for the panic of assert!(scheme_found)
URI_parse(url) ==
    LET ps == ParseScheme(url)
        scheme == ps.scheme
        url_copy == ps.url_copy
    IN  IF ~ ps.ok
        THEN [ ok |-> FALSE, scheme |-> "HTTP", hostname |-> << >>,
               path |-> << >>, port |-> << >> ]
        ELSE IF scheme \in HTTP_SCHEMES
        THEN LET hp == SplitOnceOr(url_copy, "/")
                 default_port == IF ContainsHttps(scheme)
                                 THEN << "4", "4", "3" >>
                                 ELSE << "8", "0" >>
                 split_hostname_port == Split(hp[1], ":")
             IN  [ ok |-> TRUE,
                   scheme |-> URIScheme_from_str(scheme),
                   hostname |-> IF Contains(hp[1], ":")
                                THEN split_hostname_port[1] ELSE hp[1],
                   path |-> << "/" >> \o hp[2],
                   port |-> IF Contains(hp[1], ":")
                            THEN split_hostname_port[2] ELSE default_port ]
        ELSE [ ok |-> TRUE,
               scheme |-> URIScheme_from_str(scheme),
               hostname |-> << >>,
               path |-> url_copy,
               port |-> << >> ]

\* ------------------------------------------------------------------------
\* src/src/request.rs: requests, responses and the redirect loop of send
\* ------------------------------------------------------------------------

\* The bound of the redirect loop (if redirect_count < 5)
MaxRedirects == 5

\* The url field of a request: the fields of a successfully parsed URI
UrlOf(parsed) ==
    [ scheme |-> parsed.scheme, hostname |-> parsed.hostname,
      port |-> parsed.port, path |-> parsed.path ]

\* Request::build_default_headers
build_default_headers(url) ==
    ("Host" :> url.hostname) @@ ("Connection" :> "close")
        @@ ("User-Agent" :> "Bored Browser") @@ ("Accept-Encoding" :> "gzip")

\* The HTTPRequest that send constructs before its loop
NewRequest(url) ==
    [ url |-> url, data |-> "", http_version |-> "1.1",
      headers |-> build_default_headers(url), method |-> "GET" ]

\* Identifiers handed to send: http://h/a/b/c and https://h:8/d
InitialURLs ==
    { << "h", "t", "t", "p", ":", "/", "/", "h", "/", "a", "/", "b", "/", "c" >>,
      << "h", "t", "t", "p", "s", ":", "/", "/", "h", ":", "8", "/", "d" >> }

\* Location values a server may send: /y, y, the empty value, http://o/y,
\* https://o:9/x/y and httpz
Locations ==
    { << "/", "y" >>,
      << "y" >>,
      << >>,
      << "h", "t", "t", "p", ":", "/", "/", "o", "/", "y" >>,
      << "h", "t", "t", "p", "s", ":", "/", "/", "o", ":", "9", "/", "x", "/", "y" >>,
      << "h", "t", "t", "p", "z" >> }

\* Status codes a server may send, on both sides of the two range limits
FinalStatuses == { 200, 299, 400 }
RedirectStatuses == { 300, 301, 399 }

\* A header map without entries
NoHeaders == [ h \in {} |-> << >> ]

\* What Request::parse_http_response can produce for the bytes read:
\* Ok(HTTPResponse) (only the fields send looks at), Err, or a panic.
OkResponse(status, headers) ==
    [ kind |-> "ok", status_code |-> status, headers |-> headers ]

ErrResponse == [ kind |-> "err", status_code |-> 0, headers |-> NoHeaders ]

PanicResponse == [ kind |-> "panic", status_code |-> 0, headers |-> NoHeaders ]

NoResponse == [ kind |-> "none", status_code |-> 0, headers |-> NoHeaders ]

Responses ==
    { OkResponse(s, NoHeaders) : s \in FinalStatuses \cup RedirectStatuses }
        \cup { OkResponse(s, "Location" :> l) : s \in RedirectStatuses, l \in Locations }
        \cup { ErrResponse, PanicResponse }

\* IsRedirectStatus with the lower limit excluded
IsRedirectStatus_above300(code) == ~ (code <= 300 \/ code > 399)

\* The test of send on the status code: not (code < 300 || code > 399)
IsRedirectStatus(code) == ~ (code < 300 \/ code > 399)

\* location_header.starts_with(Scheme::HTTP.as_str())
IsAbsoluteLocation(location_header) ==
    StartsWith(location_header, URIScheme_as_str("HTTP"))

\* build_request_from_redirect_response that keeps the authority of the
\* redirected request and takes only the path of an absolute Location
build_request_keep_authority(request, response) ==
    IF "Location" \notin DOMAIN response.headers
    THEN [ panic |-> "MissingLocation", request |-> request ]
    ELSE LET location_header == response.headers["Location"]
         IN  IF IsAbsoluteLocation(location_header)
             THEN [ panic |-> "none",
                    request |-> [ request EXCEPT
                                    !.url.path = URI_parse(location_header).path ] ]
             ELSE IF request.url.path = << >>
             THEN [ panic |-> "none",
                    request |-> [ request EXCEPT !.url.path = location_header ] ]
             ELSE LET last_slash_index == RFind(request.url.path, "/")
                  IN  IF last_slash_index = 0
                      THEN [ panic |-> "NoSlash", request |-> request ]
                      ELSE [ panic |-> "none",
                             request |->
                                 [ request EXCEPT !.url.path =
                                     SubSeq(request.url.path, 1, last_slash_index - 1)
                                         \o location_header ] ]

\* build_request_from_redirect_response that reads a missing Location
\* header as an empty one (unwrap_or_default instead of expect)
build_request_default_location(request, response) ==
    LET location_header == IF "Location" \in DOMAIN response.headers
                           THEN response.headers["Location"] ELSE << >>
    IN  IF IsAbsoluteLocation(location_header)
        THEN [ panic |-> "none",
               request |-> [ request EXCEPT !.url = UrlOf(URI_parse(location_header)) ] ]
        ELSE IF request.url.path = << >>
        THEN [ panic |-> "none",
               request |-> [ request EXCEPT !.url.path = location_header ] ]
        ELSE LET last_slash_index == RFind(request.url.path, "/")
             IN  IF last_slash_index = 0
                 THEN [ panic |-> "NoSlash", request |-> request ]
                 ELSE [ panic |-> "none",
                        request |->
                            [ request EXCEPT !.url.path =
                                SubSeq(request.url.path, 1, last_slash_index - 1)
                                    \o location_header ] ]

\* Request::build_request_from_redirect_response; panic names the expect
\* that failed, "none" when a request is returned
build_request_from_redirect_response(request, response) ==
    IF "Location" \notin DOMAIN response.headers
    THEN [ panic |-> "MissingLocation", request |-> request ]
    ELSE LET location_header == response.headers["Location"]
         IN  IF IsAbsoluteLocation(location_header)
             THEN LET new_url == URI_parse(location_header)
                  IN  IF new_url.ok
                      THEN [ panic |-> "none",
                             request |-> [ request EXCEPT !.url = UrlOf(new_url) ] ]
                      ELSE [ panic |-> "ParsePanic", request |-> request ]
             ELSE IF request.url.path = << >>
             THEN [ panic |-> "none",
                    request |-> [ request EXCEPT !.url.path = location_header ] ]
             ELSE LET last_slash_index == RFind(request.url.path, "/")
                  IN  IF last_slash_index = 0
                      THEN [ panic |-> "NoSlash", request |-> request ]
                      ELSE [ panic |-> "none",
                             request |->
                                 [ request EXCEPT !.url.path =
                                     SubSeq(request.url.path, 1, last_slash_index - 1)
                                         \o location_header ] ]

\* BudgetLeft with the comparison off by one
BudgetLeft_inclusive(count) == count <= MaxRedirects

\* The loop condition of send
BudgetLeft(count) == count < MaxRedirects

\* A request that was never sent
NoRequest == NewRequest([ scheme |-> "none", hostname |-> << >>,
                          port |-> << >>, path |-> << >> ])

VARIABLES
    pc,              \* "loop": at the head of send's loop; "done": send has ended
    request,         \* the local variable request of send
    redirect_count,  \* the local variable redirect_count of send
    response,        \* the local variable response: the last parse result
    outcome,         \* how send ended: "returned", "IoError" or the panic
    result,          \* the value send returned (NoResponse while there is none)
    lastSent,        \* the request most recently written to a connection
    answered,        \* the request that the last parse result answers
    nSent,           \* number of requests written to a connection
    all301           \* every attempt so far was answered by a 301 with Location

sendVars ==
    << pc, request, redirect_count, response, outcome, result, lastSent, answered,
       nSent, all301 >>

SendInit ==
    /\ pc = "loop"
    /\ \E u \in InitialURLs : request = NewRequest(UrlOf(URI_parse(u)))
    /\ redirect_count = 0
    /\ response = NoResponse
    /\ outcome = "running"
    /\ result = NoResponse
    /\ lastSent = NoRequest
    /\ answered = NoRequest
    /\ nSent = 0
    /\ all301 = TRUE

Is301WithLocation(resp) ==
    /\ resp.kind = "ok"
    /\ resp.status_code = 301
    /\ "Location" \in DOMAIN resp.headers

\* send ends without a value: a panic
Panic(name) ==
    /\ pc' = "done"
    /\ outcome' = name
    /\ UNCHANGED << request, redirect_count, result >>

\* make_request: TcpStream::connect fails (expect panics), nothing is written
ConnectFails ==
    /\ pc = "loop"
    /\ BudgetLeft(redirect_count)
    /\ Panic("ConnectFailure")
    /\ all301' = FALSE
    /\ UNCHANGED << response, lastSent, answered, nSent >>

\* make_request: the request is written, stream.flush()? fails and send
\* returns the error
FlushFails ==
    /\ pc = "loop"
    /\ BudgetLeft(redirect_count)
    /\ request.url.scheme \in { "HTTP", "HTTPS" }
    /\ lastSent' = request
    /\ nSent' = nSent + 1
    /\ pc' = "done"
    /\ outcome' = "IoError"
    /\ result' = ErrResponse
    /\ all301' = FALSE
    /\ UNCHANGED << request, redirect_count, response, answered >>

\* One iteration of the loop: make_request writes the request and reads the
\* reply, parse_http_response yields resp, and the match acts on it.
Attempt(resp) ==
    /\ pc = "loop"
    /\ BudgetLeft(redirect_count)
    /\ request.url.scheme \in { "HTTP", "HTTPS" }
    /\ lastSent' = request
    /\ nSent' = nSent + 1
    /\ response' = resp
    /\ answered' = request
    /\ all301' = (all301 /\ Is301WithLocation(resp))
    /\ CASE resp.kind = "panic" -> Panic("ParsePanic")
         [] resp.kind = "err" ->
              /\ redirect_count' = redirect_count + 1
              /\ UNCHANGED << pc, request, outcome, result >>
         [] resp.kind = "ok" /\ ~ IsRedirectStatus(resp.status_code) ->
              /\ pc' = "done"
              /\ outcome' = "returned"
              /\ result' = resp
              /\ UNCHANGED << request, redirect_count >>
         [] resp.kind = "ok" /\ IsRedirectStatus(resp.status_code) ->
              LET built == build_request_from_redirect_response(request, resp)
              IN  IF built.panic = "none"
                  THEN /\ request' = built.request
                       /\ redirect_count' = redirect_count + 1
                       /\ UNCHANGED << pc, outcome, result >>
                  ELSE Panic(built.panic)

\* The else branch of the loop: panic!("Exceeded maximum redirect count.")
Exceeded ==
    /\ pc = "loop"
    /\ ~ BudgetLeft(redirect_count)
    /\ Panic("TooManyRedirects")
    /\ UNCHANGED << response, lastSent, answered, nSent, all301 >>

SendNext ==
    \/ ConnectFails
    \/ FlushFails
    \/ \E resp \in Responses : Attempt(resp)
    \/ Exceeded

\* ------------------------------------------------------------------------
\* src/src/cache.rs
\* ------------------------------------------------------------------------

\* Largest number of entries of the index, and longest body, explored
MaxItems == 2
MaxBodyLen == 2

\* Bodies handed to insert: byte strings over two byte values
RECURSIVE BytesUpTo(_)
BytesUpTo(n) ==
    IF n = 0
    THEN { << >> }
    ELSE BytesUpTo(n - 1)
             \cup { Append(b, x) : b \in { c \in BytesUpTo(n - 1) : Len(c) = n - 1 },
                                   x \in { 1, 2 } }

Bodies == BytesUpTo(MaxBodyLen)

\* Expiry values handed to insert
Expiries == { 1, 2 }

\* Requests handed to the cache: two identifiers, a read and a non-read
\* method, the default headers in the iteration order of the request's map
CacheRequests ==
    { [ method |-> m,
        url |-> [ hostname |-> "h", port |-> "80", path |-> p ],
        headers |-> << << "Host", "h" >>, << "Connection", "close" >> >> ]
      : m \in { "GET", "POST" }, p \in { "/a", "/b" } }

\* Requests for one identifier whose header maps differ: the default
\* headers in one iteration order, the same mapping in the other iteration
\* order (a HashMap's order is fixed per map instance, not by its content),
\* and a mapping with another value
FingerprintRequests ==
    { [ method |-> "GET",
        url |-> [ hostname |-> "h", port |-> "80", path |-> "/a" ],
        headers |-> hs ]
      : hs \in { << << "Host", "h" >>, << "Connection", "close" >> >>,
                 << << "Connection", "close" >>, << "Host", "h" >> >>,
                 << << "Host", "h" >>, << "Connection", "keep-alive" >> >> } }

\* request.url.as_str(): the text of the identifier
URI_as_str(url) == << url.path, url.hostname, url.port >>

\* The bytes fed to the hasher by hash_from: the identifier, then
\* "key: value" for every header in iteration order
RECURSIVE HeaderBytes(_)
HeaderBytes(headers) ==
    IF headers = << >>
    THEN << >>
    ELSE << headers[1][1], ": ", headers[1][2] >> \o HeaderBytes(Tail(headers))

HashInput(req) == URI_as_str(req.url) \o HeaderBytes(req.headers)

\* Sha256 followed by format!("{:X}"): an injective map from the hashed
\* bytes to file names (no collisions among the inputs explored)
HexNames == { "A1", "B2", "C3", "D4" }

Sha256Hex ==
    CHOOSE f \in [ { HashInput(r) : r \in CacheRequests \cup FingerprintRequests }
                      -> HexNames ] :
        \A x, y \in DOMAIN f : f[x] = f[y] => x = y

\* hash_from
hash_from(req) == Sha256Hex[HashInput(req)]

\* OpenOptions::new().write(true).create(true) followed by write_all: the
\* file is not truncated, the data replaces the bytes from offset 0
WriteAtStart(old, data) ==
    IF Len(data) >= Len(old)
    THEN data
    ELSE data \o SubSeq(old, Len(data) + 1, Len(old))

\* u64 formatted by format!("{}") and parsed by str::parse
FormatU64(n) == IF n = 1 THEN "1" ELSE "2"

ParseU64(t) == IF t = "1" THEN 1 ELSE IF t = "2" THEN 2 ELSE -1

\* write_to_cache_control writing the newest record only
ControlData_lastOnly(items) ==
    IF items = << >>
    THEN << >>
    ELSE << FormatU64(items[Len(items)].expiry), ";",
            items[Len(items)].path_string >>

\* The data written by write_to_cache_control: "expiry;path" joined by "\n"
RECURSIVE ControlData(_)
ControlData(items) ==
    IF items = << >>
    THEN << >>
    ELSE LET line == << FormatU64(items[1].expiry), ";", items[1].path_string >>
         IN  IF Len(items) = 1
             THEN line
             ELSE line \o << "\n" >> \o ControlData(Tail(items))

\* str::lines that yields terminated lines only: the last record is lost
Lines_withoutLast(contents) ==
    LET parts == Split(contents, "\n")
    IN  SubSeq(parts, 1, Len(parts) - 1)

\* str::lines: the text between line feeds, without a final empty line
Lines(contents) ==
    LET parts == Split(contents, "\n")
    IN  IF parts[Len(parts)] = << >>
        THEN SubSeq(parts, 1, Len(parts) - 1)
        ELSE parts

\* extract_item_from of line.split(';'); ok = FALSE when it panics
extract_item_from(string_vec) ==
    IF Len(string_vec) < 2 \/ Len(string_vec[1]) # 1
    THEN [ ok |-> FALSE, expiry |-> 0, path_string |-> "" ]
    ELSE IF ParseU64(string_vec[1][1]) < 0 \/ Len(string_vec[2]) > 1
    THEN [ ok |-> FALSE, expiry |-> 0, path_string |-> "" ]
    ELSE [ ok |-> TRUE,
           expiry |-> ParseU64(string_vec[1][1]),
           path_string |-> IF string_vec[2] = << >> THEN "" ELSE string_vec[2][1] ]

\* Cache::read_cache_control applied to the content of the control file
read_cache_control(contents) ==
    LET lines == Lines(contents)
        parsed == [ i \in 1..Len(lines) |-> extract_item_from(Split(lines[i], ";")) ]
    IN  [ ok |-> \A i \in 1..Len(lines) : parsed[i].ok,
          items |-> [ i \in 1..Len(lines) |->
                        [ expiry |-> parsed[i].expiry,
                          path_string |-> parsed[i].path_string ] ] ]

\* IsReadMethod without the match on the method: every request is looked up
IsReadMethod_any(method) == method \in { "GET", "POST" }

\* The method test of Cache::extract
IsReadMethod(method) == method = "GET"

\* The first entry of the index whose path_string is the fingerprint, 0 if none
RECURSIVE FirstMatch(_, _, _)
FirstMatch(items, fp, i) ==
    IF i > Len(items)
    THEN 0
    ELSE IF items[i].path_string = fp THEN i ELSE FirstMatch(items, fp, i + 1)

VARIABLES
    started,     \* a process holds a Cache (initialize has run)
    dirExists,   \* the directory .cache/ exists
    files,       \* the body files of the directory: file name -> bytes
    control,     \* the content of .cache/.control
    items,       \* Cache.items of the running process
    lastOp       \* the last cache operation, its arguments and its result;
                 \* for extract also the body of an insert of the same
                 \* request that came right before it, and the request of
                 \* an insert for the same identifier with another header
                 \* map right before it

cacheVars == << started, dirExists, files, control, items, lastOp >>

NoFiles == [ n \in {} |-> << >> ]

NoOp == [ op |-> "none" ]

CacheInit ==
    /\ started = FALSE
    /\ dirExists = FALSE
    /\ files = NoFiles
    /\ control = << >>
    /\ items = << >>
    /\ lastOp = NoOp

\* Cache::initialize(clear_cache), at the start of a process
Initialize(clear_cache) ==
    /\ lastOp' = [ op |-> "initialize", clear |-> clear_cache ]
    /\ IF ~ dirExists
       THEN /\ dirExists' = TRUE
            /\ control' = << >>
            /\ items' = << >>
            /\ started' = TRUE
            /\ UNCHANGED files
       ELSE LET control1 == IF clear_cache THEN << >> ELSE control
                loaded == read_cache_control(control1)
            IN  /\ files' = IF clear_cache THEN NoFiles ELSE files
                /\ control' = control1
                /\ items' = IF loaded.ok THEN loaded.items ELSE << >>
                /\ started' = loaded.ok
                /\ UNCHANGED dirExists

\* items.push placing the new entry before the old ones
PushItem_front(entries, item) == << item >> \o entries

\* self.items.push(Item { .. })
PushItem(entries, item) == Append(entries, item)

\* Cache::insert(request, response, expiry)
Insert(req, body, expiry) ==
    /\ started
    /\ Len(items) < MaxItems
    /\ LET file_name_hash == hash_from(req)
           old == IF file_name_hash \in DOMAIN files
                  THEN files[file_name_hash] ELSE << >>
           items1 == PushItem(items, [ expiry |-> expiry,
                                       path_string |-> file_name_hash ])
       IN  /\ files' = [ n \in DOMAIN files \cup { file_name_hash } |->
                           IF n = file_name_hash
                           THEN WriteAtStart(old, body) ELSE files[n] ]
           /\ items' = items1
           /\ control' = WriteAtStart(control, ControlData(items1))
    /\ lastOp' = [ op |-> "insert", req |-> req, body |-> body ]
    /\ UNCHANGED << started, dirExists >>

\* The value Cache::extract returns, and the body file it reads
ExtractResult(req) ==
    IF IsReadMethod(req.method)
    THEN LET i == FirstMatch(items, hash_from(req), 1)
         IN  IF i = 0
             THEN [ kind |-> "NotFound", data |-> << >>, read |-> "" ]
             ELSE IF items[i].path_string \in DOMAIN files
             THEN [ kind |-> "Ok", data |-> files[items[i].path_string],
                    read |-> items[i].path_string ]
             ELSE [ kind |-> "Panic", data |-> << >>, read |-> items[i].path_string ]
    ELSE [ kind |-> "UnsupportedMethod", data |-> << >>, read |-> "" ]

\* Cache::extract(request)
Extract(req) ==
    /\ started
    /\ lastOp' = [ op |-> "extract", req |-> req,
                   result |-> ExtractResult(req),
                   after |-> IF lastOp.op = "insert" /\ lastOp.req = req
                             THEN << lastOp.body >> ELSE << >>,
                   prior |-> IF /\ lastOp.op = "insert"
                                /\ lastOp.req.url = req.url
                                /\ lastOp.req.headers # req.headers
                             THEN << lastOp.req >> ELSE << >> ]
    /\ UNCHANGED << started, dirExists, files, control, items >>

CacheNext ==
    \/ \E clear_cache \in BOOLEAN : Initialize(clear_cache)
    \/ \E req \in CacheRequests, body \in Bodies, expiry \in Expiries :
           Insert(req, body, expiry)
    \/ \E req \in CacheRequests : Extract(req)

\* ------------------------------------------------------------------------
\* src/src/cache.rs: Cache::insert one statement a step, and a process
\* that dies
\* ------------------------------------------------------------------------

\* The statements of insert in the order in which they run
InsertSteps_fileLast == << "push", "write_to_cache_control", "write_file" >>

InsertSteps == << "write_file", "push", "write_to_cache_control" >>

\* Bodies handed to insert
CrashBodies == { b \in Bodies : Len(b) = 1 }

VARIABLES
    insert_pc,   \* 0: the process is not in insert; else the statement of
                 \* InsertSteps that runs next
    inserting    \* the locals of the insert that is running

crashVars == << insert_pc, inserting >>

NoInsert == [ file_name_hash |-> "", response |-> << >>, expiry |-> 0 ]

\* No insert is running
CrashIdle == insert_pc = 0 /\ inserting = NoInsert

\* insert is called: the file name is computed
BeginInsert(req, body, expiry) ==
    /\ started
    /\ insert_pc = 0
    /\ Len(items) < MaxItems
    /\ insert_pc' = 1
    /\ inserting' = [ file_name_hash |-> hash_from(req), response |-> body,
                      expiry |-> expiry ]
    /\ UNCHANGED cacheVars

\* The next statement of insert runs
InsertStep ==
    /\ insert_pc > 0
    /\ LET statement == InsertSteps[insert_pc]
           old == IF inserting.file_name_hash \in DOMAIN files
                  THEN files[inserting.file_name_hash] ELSE << >>
       IN  /\ files' = IF statement = "write_file"
                       THEN [ n \in DOMAIN files \cup { inserting.file_name_hash } |->
                                IF n = inserting.file_name_hash
                                THEN WriteAtStart(old, inserting.response)
                                ELSE files[n] ]
                       ELSE files
           /\ items' = IF statement = "push"
                       THEN PushItem(items, [ expiry |-> inserting.expiry,
                                              path_string |-> inserting.file_name_hash ])
                       ELSE items
           /\ control' = IF statement = "write_to_cache_control"
                         THEN WriteAtStart(control, ControlData(items))
                         ELSE control
    /\ insert_pc' = IF insert_pc = Len(InsertSteps) THEN 0 ELSE insert_pc + 1
    /\ inserting' = IF insert_pc = Len(InsertSteps) THEN NoInsert ELSE inserting
    /\ UNCHANGED << started, dirExists, lastOp >>

\* The process dies: its memory is lost, the directory stays
Crash ==
    /\ started
    /\ started' = FALSE
    /\ items' = << >>
    /\ insert_pc' = 0
    /\ inserting' = NoInsert
    /\ UNCHANGED << dirExists, files, control, lastOp >>

\* A process starts when none is running
Restart(clear_cache) ==
    /\ ~ started
    /\ Initialize(clear_cache)
    /\ UNCHANGED crashVars

CrashNext ==
    \/ \E clear_cache \in BOOLEAN : Restart(clear_cache)
    \/ \E req \in CacheRequests, body \in CrashBodies, expiry \in Expiries :
           BeginInsert(req, body, expiry)
    \/ InsertStep
    \/ Crash

\* ------------------------------------------------------------------------
\* src/src/cache.rs: two processes that share the cache directory
\* ------------------------------------------------------------------------

VARIABLES
    peer_started,    \* the other process holds a Cache
    peer_items,      \* Cache.items of the other process
    seen,            \* the control file as initialize of this process read it
    peer_seen,       \* the control file as initialize of the other process read it
    inserted,        \* the file names this process has inserted
    peer_inserted    \* the file names the other process has inserted

peerVars == << peer_started, peer_items, seen, peer_seen, inserted, peer_inserted >>

\* One process and no record of what it did
PeerIdle ==
    /\ peer_started = FALSE /\ peer_items = << >>
    /\ seen = << >> /\ peer_seen = << >>
    /\ inserted = << >> /\ peer_inserted = << >>

\* Cache::initialize(clear_cache) of this process
OwnInitialize(clear_cache) ==
    /\ ~ started
    /\ Initialize(clear_cache)
    /\ seen' = control'
    /\ UNCHANGED << peer_started, peer_items, peer_seen, inserted, peer_inserted >>

\* Cache::insert of this process
OwnInsert(req, body, expiry) ==
    /\ Insert(req, body, expiry)
    /\ inserted' = Append(inserted, hash_from(req))
    /\ UNCHANGED << peer_started, peer_items, seen, peer_seen, peer_inserted >>

\* Cache::initialize(clear_cache) of the other process
PeerInitialize(clear_cache) ==
    /\ ~ peer_started
    /\ IF ~ dirExists
       THEN /\ dirExists' = TRUE
            /\ control' = << >>
            /\ peer_items' = << >>
            /\ peer_started' = TRUE
            /\ UNCHANGED files
       ELSE LET control1 == IF clear_cache THEN << >> ELSE control
                loaded == read_cache_control(control1)
            IN  /\ files' = IF clear_cache THEN NoFiles ELSE files
                /\ control' = control1
                /\ peer_items' = IF loaded.ok THEN loaded.items ELSE << >>
                /\ peer_started' = loaded.ok
                /\ UNCHANGED dirExists
    /\ peer_seen' = control'
    /\ UNCHANGED << started, items, lastOp, seen, inserted, peer_inserted >>

\* An insert that reads the control file again before it extends the index
PeerInsert_reloading(req, body, expiry) ==
    /\ peer_started
    /\ Len(peer_items) < MaxItems
    /\ read_cache_control(control).ok
    /\ Len(read_cache_control(control).items) < MaxItems
    /\ LET file_name_hash == hash_from(req)
           old == IF file_name_hash \in DOMAIN files
                  THEN files[file_name_hash] ELSE << >>
           items1 == PushItem(read_cache_control(control).items,
                              [ expiry |-> expiry, path_string |-> file_name_hash ])
       IN  /\ files' = [ n \in DOMAIN files \cup { file_name_hash } |->
                           IF n = file_name_hash
                           THEN WriteAtStart(old, body) ELSE files[n] ]
           /\ peer_items' = items1
           /\ control' = WriteAtStart(control, ControlData(items1))
           /\ peer_inserted' = Append(peer_inserted, file_name_hash)
    /\ UNCHANGED << started, dirExists, items, lastOp, peer_started, seen, peer_seen,
                    inserted >>

\* Cache::insert(request, response, expiry) of the other process
PeerInsert(req, body, expiry) ==
    /\ peer_started
    /\ Len(peer_items) < MaxItems
    /\ LET file_name_hash == hash_from(req)
           old == IF file_name_hash \in DOMAIN files
                  THEN files[file_name_hash] ELSE << >>
           items1 == PushItem(peer_items, [ expiry |-> expiry,
                                            path_string |-> file_name_hash ])
       IN  /\ files' = [ n \in DOMAIN files \cup { file_name_hash } |->
                           IF n = file_name_hash
                           THEN WriteAtStart(old, body) ELSE files[n] ]
           /\ peer_items' = items1
           /\ control' = WriteAtStart(control, ControlData(items1))
           /\ peer_inserted' = Append(peer_inserted, file_name_hash)
    /\ UNCHANGED << started, dirExists, items, lastOp, peer_started, seen, peer_seen,
                    inserted >>

TwoProcessNext ==
    \/ \E clear_cache \in BOOLEAN : OwnInitialize(clear_cache)
    \/ \E clear_cache \in BOOLEAN : PeerInitialize(clear_cache)
    \/ \E req \in CacheRequests, body \in CrashBodies, expiry \in Expiries :
           OwnInsert(req, body, expiry)
    \/ \E req \in CacheRequests, body \in CrashBodies, expiry \in Expiries :
           PeerInsert(req, body, expiry)

\* ------------------------------------------------------------------------
\* Texts handed to URI::parse
\* ------------------------------------------------------------------------

Colon == << ":" >>

\* The parts the texts are put together from: an optional view-source
\* wrapper, a scheme with its colon (recognised, unknown or missing), an
\* optional "//", a host-part and the rest
Wrappers == { << >>, VIEWSOURCE_PREFIX \o Colon }

SchemeTexts ==
    { HTTP_SCHEME \o Colon, HTTPS_SCHEME \o Colon, FILE_SCHEME \o Colon,
      DATA_SCHEME \o Colon, << "f", "t", "p", ":" >>, << >> }

SlashTexts == { << >>, << "/", "/" >> }

HostParts ==
    { << "h" >>, << "h", ":", "9" >>, << "h", ":", "x" >>, << >>, << ":", "9" >> }

Rests == { << >>, << "/" >>, << "/", "x" >>, << "/", "x", ":", "y", "/", "z" >> }

ParseInputs ==
    { w \o s \o sl \o hp \o r :
        w \in Wrappers, s \in SchemeTexts, sl \in SlashTexts,
        hp \in HostParts, r \in Rests }

VARIABLES
    input,       \* the text handed to URI::parse
    parsed       \* whether parse has run, and the URI (or panic) it gave

parseVars == << input, parsed >>

NotParsed == [ done |-> FALSE ]

\* No text is being parsed
ParseIdle == input = << >> /\ parsed = NotParsed

ParseInit == input \in ParseInputs /\ parsed = NotParsed

\* URI::parse(&input)
ParseInput ==
    /\ ~ parsed.done
    /\ parsed' = [ done |-> TRUE, uri |-> URI_parse(input) ]
    /\ UNCHANGED input

ParseNext == ParseInput

\* ------------------------------------------------------------------------
\* src/src/request.rs: Request::parse_http_response
\* ------------------------------------------------------------------------

\* A byte is a one-character string when it is ASCII; the other bytes used
\* are C3 A9 (the two bytes of one character in UTF-8) and FF and 8B (never
\* valid in UTF-8)
CRLF == << "\r", "\n" >>

Whitespace == { " ", "\t", "\r", "\n" }

\* String::from_utf8 / the UTF-8 test of read_line and read_to_string:
\* ok = FALSE when the bytes are not UTF-8, else the characters
RECURSIVE Utf8Decode(_)
Utf8Decode(bytes) ==
    IF \A i \in 1..Len(bytes) : bytes[i] \notin { "C3", "A9", "FF", "8B" }
    THEN [ ok |-> TRUE, text |-> bytes ]
    ELSE IF bytes[1] = "C3"
    THEN IF Len(bytes) >= 2 /\ bytes[2] = "A9"
         THEN LET more == Utf8Decode(SubSeq(bytes, 3, Len(bytes)))
              IN  [ ok |-> more.ok, text |-> << "U+E9" >> \o more.text ]
         ELSE [ ok |-> FALSE, text |-> << >> ]
    ELSE IF bytes[1] \in { "A9", "FF", "8B" }
    THEN [ ok |-> FALSE, text |-> << >> ]
    ELSE LET more == Utf8Decode(Tail(bytes))
         IN  [ ok |-> more.ok, text |-> << bytes[1] >> \o more.text ]

\* A gzip member with one stored block: the magic bytes, the data, the
\* trailer (crc and length, one token)
GzipMagic == << "1F", "8B" >>
GzipTrailer == << "CRC" >>

\* GzDecoder::read_to_string: ok = FALSE when the bytes are not a gzip
\* member or the data in it is not UTF-8
Gunzip(bytes) ==
    IF /\ Len(bytes) >= Len(GzipMagic) + Len(GzipTrailer)
       /\ StartsWith(bytes, GzipMagic)
       /\ SubSeq(bytes, Len(bytes) - Len(GzipTrailer) + 1, Len(bytes)) = GzipTrailer
    THEN Utf8Decode(SubSeq(bytes, Len(GzipMagic) + 1, Len(bytes) - Len(GzipTrailer)))
    ELSE [ ok |-> FALSE, text |-> << >> ]

\* BufRead::read_line on the cursor at pos (bytes consumed so far): the
\* bytes up to and with the next line feed, or up to the end
ReadLine(buf, pos) ==
    LET rest == SubSeq(buf, pos + 1, Len(buf))
        i == FindFirst(rest, "\n")
    IN  IF i = 0
        THEN [ line |-> rest, pos |-> Len(buf) ]
        ELSE [ line |-> SubSeq(rest, 1, i), pos |-> pos + i ]

\* str::trim_end
RECURSIVE TrimEnd(_)
TrimEnd(t) ==
    IF t # << >> /\ t[Len(t)] \in Whitespace
    THEN TrimEnd(SubSeq(t, 1, Len(t) - 1))
    ELSE t

\* str::trim_start
RECURSIVE TrimStart(_)
TrimStart(t) ==
    IF t # << >> /\ t[1] \in Whitespace THEN TrimStart(Tail(t)) ELSE t

\* str::trim
Trim(t) == TrimStart(TrimEnd(t))

\* str::contains(&str)
ContainsText(t, p) ==
    \E i \in 1..(Len(t) + 1) : StartsWith(SubSeq(t, i, Len(t)), p)

\* str::trim_start_matches(&str): the prefix is stripped as often as it is there
RECURSIVE TrimStartMatches(_, _)
TrimStartMatches(t, p) ==
    IF p # << >> /\ StartsWith(t, p)
    THEN TrimStartMatches(SubSeq(t, Len(p) + 1, Len(t)), p)
    ELSE t

DecValue ==
    ("0" :> 0) @@ ("1" :> 1) @@ ("2" :> 2) @@ ("3" :> 3) @@ ("4" :> 4)
        @@ ("5" :> 5) @@ ("6" :> 6) @@ ("7" :> 7) @@ ("8" :> 8) @@ ("9" :> 9)

HexValue ==
    DecValue @@ ("a" :> 10) @@ ("b" :> 11) @@ ("c" :> 12) @@ ("d" :> 13)
        @@ ("e" :> 14) @@ ("f" :> 15) @@ ("A" :> 10) @@ ("B" :> 11)
        @@ ("C" :> 12) @@ ("D" :> 13) @@ ("E" :> 14) @@ ("F" :> 15)

\* The number written in t with the digit values val and the given radix,
\* -1 when t is empty or has another character
RECURSIVE NumberIn(_, _, _)
NumberIn(t, val, radix) ==
    IF t = << >> \/ t[Len(t)] \notin DOMAIN val
    THEN -1
    ELSE IF Len(t) = 1
    THEN val[t[1]]
    ELSE LET high == NumberIn(SubSeq(t, 1, Len(t) - 1), val, radix)
         IN  IF high < 0 THEN -1 ELSE high * radix + val[t[Len(t)]]

\* One leading "+" is accepted by the integer parsers of the standard library
Unsigned(t) == IF t # << >> /\ t[1] = "+" THEN Tail(t) ELSE t

U16Max == 65535

\* str::parse::<u16>: -1 when it fails
ParseU16(t) ==
    LET n == NumberIn(Unsigned(t), DecValue, 10)
    IN  IF n > U16Max THEN -1 ELSE n

\* u64::from_str_radix(t, 16): -1 when it fails
FromStrRadix16(t) == NumberIn(Unsigned(t), HexValue, 16)

\* Header::as_str
Header_TransferEncoding == << "T", "r", "a", "n", "s", "f", "e", "r", "-", "E", "n", "c", "o", "d", "i", "n", "g" >>
Header_ContentEncoding == << "C", "o", "n", "t", "e", "n", "t", "-", "E", "n", "c", "o", "d", "i", "n", "g" >>
Header_Location == << "L", "o", "c", "a", "t", "i", "o", "n" >>

Text_chunked == << "c", "h", "u", "n", "k", "e", "d" >>
Text_gzip == << "g", "z", "i", "p" >>
Text_HTTP_slash == << "H", "T", "T", "P", "/" >>

\* A result of parse_http_response that is not a response: Err(..) of a
\* failed read, a panic, or a loop that never ends
NoResponseOf(kind, why) == [ kind |-> kind, why |-> why ]

\* headers.insert(header, value)
HeadersInsert(hdrs, header, value) ==
    [ h \in DOMAIN hdrs \cup { header } |-> IF h = header THEN value ELSE hdrs[h] ]

\* The loop that reads the header lines, from the cursor at pos: the
\* headers and the cursor after the line "\r\n", or no response. At the
\* end of the buffer read_line gives "" and the loop runs forever.
RECURSIVE HeaderLoop(_, _, _)
HeaderLoop(buf, pos, hdrs) ==
    LET rl == ReadLine(buf, pos)
        current_line == Utf8Decode(rl.line)
        i == FindFirst(current_line.text, ":")
        header == IF i = 0 THEN current_line.text
                  ELSE SubSeq(current_line.text, 1, i - 1)
        value == IF i = 0 THEN << >>
                 ELSE SubSeq(current_line.text, i + 1, Len(current_line.text))
    IN  IF ~ current_line.ok
        THEN NoResponseOf("Err", "ReadLine")
        ELSE IF current_line.text = CRLF
        THEN [ kind |-> "Headers", headers |-> hdrs, pos |-> rl.pos ]
        ELSE IF rl.line = << >>
        THEN NoResponseOf("Hang", "HeaderLoop")
        ELSE HeaderLoop(buf, rl.pos, HeadersInsert(hdrs, header, Trim(value)))

Min(a, b) == IF a < b THEN a ELSE b

\* The capacity of io::BufReader::new (DEFAULT_BUF_SIZE of the standard library)
BufReaderCapacity == 8192

\* The bytes the BufReader holds at the cursor pos: it refills, with up to
\* its capacity, only when it holds nothing, so its fills start at the
\* multiples of the capacity (no read of a whole capacity bypasses it: every
\* chunk explored is shorter)
Buffered(buf, pos) ==
    Min(BufReaderCapacity - (pos % BufReaderCapacity), Len(buf) - pos)

\* reader.read(&mut spacing_buffer): the number of bytes read into the two
\* bytes; BufReader::read copies from what it holds and does not refill to
\* fill the rest of the buffer
SpacingRead(buf, pos) == Min(2, Buffered(buf, pos))

\* The chunk loop, from the cursor at pos with the data read so far: a
\* size line, at most that many bytes, two bytes of spacing; it ends when
\* read_line reads nothing (the end of the buffer)
RECURSIVE ChunkLoop(_, _, _)
ChunkLoop(buf, pos, data) ==
    LET rl == ReadLine(buf, pos)
        length_buffer == Utf8Decode(rl.line)
        bytes_to_read == FromStrRadix16(TrimEnd(length_buffer.text))
        taken == Min(bytes_to_read, Len(buf) - rl.pos)
    IN  IF ~ length_buffer.ok
        THEN NoResponseOf("Panic", "ReadLine")
        ELSE IF rl.line = << >>
        THEN [ kind |-> "Data", data |-> data ]
        ELSE IF bytes_to_read < 0
        THEN NoResponseOf("Panic", "ChunkSize")
        ELSE ChunkLoop(buf, rl.pos + taken + SpacingRead(buf, rl.pos + taken),
                       data \o SubSeq(buf, rl.pos + 1, rl.pos + taken))

\* The body bytes: the chunk loop when the headers have the key
\* Transfer-Encoding, else all bytes that are left
ReadBody(buf, pos, hdrs) ==
    IF Header_TransferEncoding \in DOMAIN hdrs
    THEN IF hdrs[Header_TransferEncoding] # Text_chunked
         THEN NoResponseOf("Panic", "TransferEncoding")
         ELSE ChunkLoop(buf, pos, << >>)
    ELSE [ kind |-> "Data", data |-> SubSeq(buf, pos + 1, Len(buf)) ]

\* A decoder that keeps bytes that are not UTF-8 instead of failing
DecodeBody_lossy(data, hdrs) ==
    IF Header_ContentEncoding \in DOMAIN hdrs
    THEN IF hdrs[Header_ContentEncoding] # Text_gzip
         THEN NoResponseOf("Panic", "ContentEncoding")
         ELSE IF ~ Gunzip(data).ok
         THEN NoResponseOf("Err", "Gunzip")
         ELSE [ kind |-> "Text", text |-> Gunzip(data).text ]
    ELSE IF ~ Utf8Decode(data).ok
    THEN [ kind |-> "Text", text |-> data ]
    ELSE [ kind |-> "Text", text |-> Utf8Decode(data).text ]

\* The text of the body: gunzipped when the headers have the key
\* Content-Encoding, else the bytes as UTF-8
DecodeBody(data, hdrs) ==
    IF Header_ContentEncoding \in DOMAIN hdrs
    THEN IF hdrs[Header_ContentEncoding] # Text_gzip
         THEN NoResponseOf("Panic", "ContentEncoding")
         ELSE IF ~ Gunzip(data).ok
         THEN NoResponseOf("Err", "Gunzip")
         ELSE [ kind |-> "Text", text |-> Gunzip(data).text ]
    ELSE IF ~ Utf8Decode(data).ok
    THEN NoResponseOf("Panic", "Utf8")
    ELSE [ kind |-> "Text", text |-> Utf8Decode(data).text ]

\* Request::parse_http_response
parse_http_response(buf) ==
    LET rl == ReadLine(buf, 0)
        status_line == Utf8Decode(rl.line)
        status_parts == Split(status_line.text, " ")
        hl == HeaderLoop(buf, rl.pos, [ h \in {} |-> << >> ])
        body == ReadBody(buf, hl.pos, hl.headers)
        data_string == DecodeBody(body.data, hl.headers)
    IN  IF ~ status_line.ok
        THEN NoResponseOf("Err", "ReadLine")
        ELSE IF ~ ContainsText(status_parts[1], Text_HTTP_slash)
        THEN NoResponseOf("Panic", "AssertHttp")
        ELSE IF Len(status_parts) < 2
        THEN NoResponseOf("Panic", "StatusIndex")
        ELSE IF ParseU16(status_parts[2]) < 0
        THEN NoResponseOf("Panic", "StatusCode")
        ELSE IF Len(status_parts) < 3
        THEN NoResponseOf("Panic", "StatusIndex")
        ELSE IF hl.kind # "Headers"
        THEN hl
        ELSE IF body.kind # "Data"
        THEN body
        ELSE IF data_string.kind # "Text"
        THEN data_string
        ELSE [ kind |-> "Ok",
               http_version |-> TrimStartMatches(status_parts[1], Text_HTTP_slash),
               status_code |-> ParseU16(status_parts[2]),
               status_message |-> status_parts[3],
               headers |-> hl.headers,
               data |-> data_string.text ]

\* ------------------------------------------------------------------------
\* Buffers handed to parse_http_response
\* ------------------------------------------------------------------------

StatusLineOK ==
    << "H", "T", "T", "P", "/", "1", ".", "1", " ", "2", "0", "0", " ", "O",
     "K", "\r", "\n" >>

\* Status lines: a good one, a first token that holds but does not start
\* with HTTP/, a doubled HTTP/, no HTTP/, codes 99, 600 and 2x0, no message
StatusLines ==
    { << "H", "T", "T", "P", "/", "1", ".", "1", " ", "2", "0", "0", " ", "O",
         "K", "\r", "\n" >>,
      << "x", "H", "T", "T", "P", "/", "1", ".", "1", " ", "2", "0", "0", " ",
         "O", "K", "\r", "\n" >>,
      << "H", "T", "T", "P", "/", "H", "T", "T", "P", "/", "1", ".", "1", " ",
         "2", "0", "0", " ", "O", "K", "\r", "\n" >>,
      << "I", "C", "Y", " ", "2", "0", "0", " ", "O", "K", "\r", "\n" >>,
      << "H", "T", "T", "P", "/", "1", ".", "1", " ", "9", "9", " ", "L", "o",
         "w", "\r", "\n" >>,
      << "H", "T", "T", "P", "/", "1", ".", "1", " ", "6", "0", "0", " ", "H",
         "i", "g", "h", "\r", "\n" >>,
      << "H", "T", "T", "P", "/", "1", ".", "1", " ", "2", "x", "0", " ", "O",
         "K", "\r", "\n" >>,
      << "H", "T", "T", "P", "/", "1", ".", "1", " ", "2", "0", "0", "\r", "\n" >> }

ChunkedHeader ==
    << "T", "r", "a", "n", "s", "f", "e", "r", "-", "E", "n", "c", "o", "d",
     "i", "n", "g", ":", " ", "c", "h", "u", "n", "k", "e", "d", "\r",
     "\n" >>

GzipHeader ==
    << "C", "o", "n", "t", "e", "n", "t", "-", "E", "n", "c", "o", "d", "i",
     "n", "g", ":", " ", "g", "z", "i", "p", "\r", "\n" >>

\* A header line as a server writes it
HeaderLine(name, value) == name \o << ":", " " >> \o value \o CRLF

\* The encoding headers and Location in another letter case
LowerChunkedHeader ==
    HeaderLine(<< "t", "r", "a", "n", "s", "f", "e", "r", "-", "e", "n", "c", "o", "d", "i", "n", "g" >>,
               Text_chunked)

LowerGzipHeader ==
    HeaderLine(<< "c", "o", "n", "t", "e", "n", "t", "-", "e", "n", "c", "o", "d", "i", "n", "g" >>,
               Text_gzip)

LocationHeader == HeaderLine(Header_Location, << "/", "y" >>)

UpperLocationHeader ==
    HeaderLine(<< "L", "O", "C", "A", "T", "I", "O", "N" >>, << "/", "y" >>)

\* The encoding headers with a value the parser does not know
IdentityHeader ==
    HeaderLine(Header_TransferEncoding, << "i", "d", "e", "n", "t", "i", "t", "y" >>)

BrHeader == HeaderLine(Header_ContentEncoding, << "b", "r" >>)

LowerIdentityHeader ==
    HeaderLine(<< "t", "r", "a", "n", "s", "f", "e", "r", "-", "e", "n", "c", "o", "d", "i", "n", "g" >>,
               << "i", "d", "e", "n", "t", "i", "t", "y" >>)

\* Header lines: none, the encoding headers in other letter cases and with
\* other values, a Location header in two letter cases
OtherHeaderBlocks ==
    { << >>, LowerChunkedHeader, IdentityHeader, LowerIdentityHeader,
      LowerGzipHeader, BrHeader, LocationHeader, UpperLocationHeader }

HeaderBlocks ==
    OtherHeaderBlocks \cup { ChunkedHeader, GzipHeader, ChunkedHeader \o GzipHeader }

\* The line that ends the headers, or nothing (the buffer ends early)
HeaderEnds == { CRLF, << >> }

\* Lists of chunk data: none, Wiki and pedia, a chunk that is a line
\* terminator, a chunk of ten bytes (size line "a")
ChunkLists ==
    { << >>,
      << << "W", "i", "k", "i" >>, << "p", "e", "d", "i", "a" >> >>,
      << CRLF, << "x" >> >>,
      << << "0", "1", "2", "3", "4", "5", "6", "7", "8", "9" >> >> }

HexDigits ==
    << "0", "1", "2", "3", "4", "5", "6", "7", "8", "9", "a", "b", "c", "d", "e", "f" >>

\* A number in hexadecimal
RECURSIVE HexText(_)
HexText(n) ==
    IF n < 16
    THEN << HexDigits[n + 1] >>
    ELSE HexText(n \div 16) \o << HexDigits[(n % 16) + 1] >>

\* The chunks of a chunked body: size line, data, line terminator
RECURSIVE ChunkedData(_)
ChunkedData(chunks) ==
    IF chunks = << >>
    THEN << >>
    ELSE HexText(Len(chunks[1])) \o CRLF \o chunks[1] \o CRLF
             \o ChunkedData(Tail(chunks))

\* The chunk of size zero that ends a chunked body
LastChunk == << "0" >> \o CRLF \o CRLF

ChunkedBody(chunks) == ChunkedData(chunks) \o LastChunk

\* Bytes that follow the last chunk in the buffer: a further chunk
TrailingChunk == << "3" >> \o CRLF \o << "a", "b", "c" >> \o CRLF

GzipOf(bytes) == GzipMagic \o bytes \o GzipTrailer

\* Bodies: plain text, bytes that are not UTF-8, a two-byte character,
\* chunked bodies, chunked bodies followed by further bytes, gzip members
ResponseBodies ==
    { << >>, << "h", "i" >>, << "h", "FF" >>, << "h", "C3", "A9" >> }
        \cup { ChunkedBody(k) : k \in ChunkLists }
        \cup { ChunkedBody(k) \o TrailingChunk : k \in ChunkLists }
        \cup { ChunkedBody(<< << "h", "i" >> >>) \o << "Z" >> \o CRLF }
        \cup { GzipOf(<< "h", "i" >>), GzipMagic,
               ChunkedBody(<< GzipOf(<< "h", "i" >>) >>) }

\* The status line and the headers of a chunked response
ChunkedHead == StatusLineOK \o ChunkedHeader \o CRLF

\* A chunk whose last byte is the byte n of the buffer when it is the first
\* chunk after ChunkedHead (its size line has four hexadecimal digits)
ChunkUpTo(n) == [ i \in 1..(n - Len(ChunkedHead) - 6) |-> "x" ]

\* Chunked responses longer than the capacity of the BufReader: the line
\* terminator after the first chunk is the first two bytes of the second
\* fill, or its first byte is the last byte of the first fill
LargeChunkLists ==
    { << ChunkUpTo(n), << "y" >> >> :
        n \in { BufReaderCapacity, BufReaderCapacity - 1 } }

LargeInputs == { ChunkedHead \o ChunkedBody(k) : k \in LargeChunkLists }

ResponseInputs ==
    { sl \o hb \o he \o b :
        sl \in StatusLines, hb \in HeaderBlocks, he \in HeaderEnds,
        b \in ResponseBodies }
        \cup LargeInputs

VARIABLES
    data_buffer,     \* the bytes read from the connection
    http_response    \* whether parse_http_response has run, and what it gave

responseVars == << data_buffer, http_response >>

\* No buffer is being parsed
ResponseIdle == data_buffer = << >> /\ http_response = NotParsed

ResponseInit == data_buffer \in ResponseInputs /\ http_response = NotParsed

\* Request::parse_http_response(&data_buffer)
ParseResponse ==
    /\ ~ http_response.done
    /\ http_response' = [ done |-> TRUE, value |-> parse_http_response(data_buffer) ]
    /\ UNCHANGED data_buffer

ResponseNext == ParseResponse

\* ------------------------------------------------------------------------
\* Request::parse_http_response, one loop iteration a step
\* ------------------------------------------------------------------------

\* The status line: the cursor after it, or no response
StatusLine(buf) ==
    LET rl == ReadLine(buf, 0)
        status_line == Utf8Decode(rl.line)
        status_parts == Split(status_line.text, " ")
    IN  IF ~ status_line.ok
        THEN NoResponseOf("Err", "ReadLine")
        ELSE IF ~ ContainsText(status_parts[1], Text_HTTP_slash)
        THEN NoResponseOf("Panic", "AssertHttp")
        ELSE IF Len(status_parts) < 2
        THEN NoResponseOf("Panic", "StatusIndex")
        ELSE IF ParseU16(status_parts[2]) < 0
        THEN NoResponseOf("Panic", "StatusCode")
        ELSE IF Len(status_parts) < 3
        THEN NoResponseOf("Panic", "StatusIndex")
        ELSE [ kind |-> "Status", pos |-> rl.pos ]

\* The line that one iteration of the header loop reads from the cursor at
\* pos: the empty line ("Break"), a header and its trimmed value
\* ("Header"), or the read fails
HeaderLineRead(buf, pos) ==
    LET rl == ReadLine(buf, pos)
        current_line == Utf8Decode(rl.line)
        i == FindFirst(current_line.text, ":")
        header == IF i = 0 THEN current_line.text
                  ELSE SubSeq(current_line.text, 1, i - 1)
        value == IF i = 0 THEN << >>
                 ELSE SubSeq(current_line.text, i + 1, Len(current_line.text))
    IN  IF ~ current_line.ok
        THEN NoResponseOf("Err", "ReadLine")
        ELSE IF current_line.text = CRLF
        THEN [ kind |-> "Break", pos |-> rl.pos ]
        ELSE [ kind |-> "Header", header |-> header, value |-> Trim(value),
               pos |-> rl.pos ]

\* The buffers parsed step by step: those shorter than the reader's capacity
StepInputs == ResponseInputs \ LargeInputs

\* The status line, the header lines and the result of every buffer
StatusLineOf == [ buf \in StepInputs |-> StatusLine(buf) ]

HeaderLineOf ==
    [ buf \in StepInputs |-> [ pos \in 0..Len(buf) |-> HeaderLineRead(buf, pos) ] ]

ResponseOf == [ buf \in StepInputs |-> parse_http_response(buf) ]

VARIABLES
    parse_pc,        \* where parse_http_response is: idle, status, headers, body, returned
    reader_pos,      \* the bytes the reader has consumed
    headers_read     \* the local headers

stepVars == << parse_pc, reader_pos, headers_read >>

\* parse_http_response is not running
StepIdle == parse_pc = "idle" /\ reader_pos = 0 /\ headers_read = NoHeaders

StepInit ==
    /\ data_buffer \in StepInputs /\ http_response = NotParsed
    /\ parse_pc = "status" /\ reader_pos = 0 /\ headers_read = NoHeaders

\* The function returns value, or panics
Returns(value) ==
    /\ http_response' = [ done |-> TRUE, value |-> value ]
    /\ parse_pc' = "returned"
    /\ UNCHANGED << data_buffer, reader_pos, headers_read >>

\* The status line is read and taken apart
ReadStatusLine ==
    /\ parse_pc = "status"
    /\ LET st == StatusLineOf[data_buffer]
       IN  IF st.kind # "Status"
           THEN Returns(st)
           ELSE /\ parse_pc' = "headers"
                /\ reader_pos' = st.pos
                /\ UNCHANGED << data_buffer, http_response, headers_read >>

\* One iteration of the header loop
ReadHeaderLine ==
    /\ parse_pc = "headers"
    /\ LET it == HeaderLineOf[data_buffer][reader_pos]
       IN  IF it.kind = "Err"
           THEN Returns(it)
           ELSE /\ parse_pc' = IF it.kind = "Break" THEN "body" ELSE "headers"
                /\ reader_pos' = it.pos
                /\ headers_read' = IF it.kind = "Break" THEN headers_read
                                   ELSE HeadersInsert(headers_read, it.header, it.value)
                /\ UNCHANGED << data_buffer, http_response >>

\* The rest of the function after the header loop: the body is read and
\* decoded, and the function returns
ReadAndDecodeBody ==
    /\ parse_pc = "body"
    /\ Returns(ResponseOf[data_buffer])

StepNext == ReadStatusLine \/ ReadHeaderLine \/ ReadAndDecodeBody

\* ------------------------------------------------------------------------
\* src/src/request.rs: HTTPRequest::build
\* ------------------------------------------------------------------------

\* enum HTTPMethod
HTTPMethods ==
    { "CONNECT", "DELETE", "GET", "HEAD", "OPTIONS", "POST", "PUT", "TRACE" }

\* HTTPMethod::as_str
HTTPMethod_as_str(method) ==
    CASE method = "CONNECT" -> << "C", "O", "N", "N", "E", "C", "T" >>
      [] method = "DELETE"  -> << "D", "E", "L", "E", "T", "E" >>
      [] method = "GET"     -> << "G", "E", "T" >>
      [] method = "HEAD"    -> << "H", "E", "A", "D" >>
      [] method = "OPTIONS" -> << "O", "P", "T", "I", "O", "N", "S" >>
      [] method = "POST"    -> << "P", "O", "S", "T" >>
      [] method = "PUT"     -> << "P", "U", "T" >>
      [] method = "TRACE"   -> << "T", "R", "A", "C", "E" >>

\* The orders in which a HashMap with these keys may be iterated
IterationOrders(keys) ==
    { order \in [ 1..Cardinality(keys) -> keys ] :
        \A i, j \in 1..Cardinality(keys) : order[i] = order[j] => i = j }

\* HTTPRequest::build_headers, the map being iterated in the given order
RECURSIVE build_headers(_, _)
build_headers(headers, order) ==
    IF order = << >>
    THEN << >>
    ELSE order[1] \o << ":", " " >> \o headers[order[1]] \o CRLF
             \o build_headers(headers, Tail(order))

\* A build that writes the data of the request after the headers
HTTPRequest_build_withData(self, order) ==
    HTTPMethod_as_str(self.method) \o << " " >> \o self.url.path
        \o << " ", "H", "T", "T", "P", "/" >> \o self.http_version \o CRLF
        \o build_headers(self.headers, order) \o CRLF \o self.data \o CRLF

\* HTTPRequest::build, the header map being iterated in the given order
HTTPRequest_build(self, order) ==
    HTTPMethod_as_str(self.method) \o << " " >> \o self.url.path
        \o << " ", "H", "T", "T", "P", "/" >> \o self.http_version \o CRLF
        \o build_headers(self.headers, order) \o CRLF \o CRLF

\* ------------------------------------------------------------------------
\* Requests handed to HTTPRequest::build
\* ------------------------------------------------------------------------

Key_Host == << "H", "o", "s", "t" >>
Key_Connection == << "C", "o", "n", "n", "e", "c", "t", "i", "o", "n" >>
Key_X == << "X" >>

\* Header maps: empty, one, two and three headers (one with an empty value)
BuildHeaderMaps ==
    { [ k \in {} |-> << >> ],
      Key_Host :> << "h" >>,
      (Key_Host :> << "h" >>) @@ (Key_Connection :> << "c", "l", "o", "s", "e" >>),
      (Key_Host :> << "h" >>) @@ (Key_Connection :> << "c", "l", "o", "s", "e" >>)
          @@ (Key_X :> << >>) }

\* Paths: /, /a and the empty path
BuildPaths == { << "/" >>, << "/", "a" >>, << >> }

BuildVersions == { << "1", ".", "1" >>, << "1", ".", "0" >> }

\* The data of a request: none, or a form
BuildData == { << >>, << "q", "=", "1" >> }

BuildRequests ==
    { [ url |-> [ path |-> path ], http_version |-> version, method |-> method,
        headers |-> headers, data |-> data ] :
        path \in BuildPaths, version \in BuildVersions, method \in HTTPMethods,
        headers \in BuildHeaderMaps, data \in BuildData }

VARIABLES
    http_request,    \* the HTTPRequest that is built
    request_text     \* whether build has run, and the text it returned

buildVars == << http_request, request_text >>

NotBuilt == [ done |-> FALSE ]

\* No request is being built
BuildIdle == http_request = NotBuilt /\ request_text = NotBuilt

BuildInit == http_request \in BuildRequests /\ request_text = NotBuilt

\* request.build()
Build ==
    /\ ~ request_text.done
    /\ \E order \in IterationOrders(DOMAIN http_request.headers) :
           request_text' = [ done |-> TRUE,
                             value |-> HTTPRequest_build(http_request, order) ]
    /\ UNCHANGED http_request

BuildNext == Build

\* ------------------------------------------------------------------------
\* Specifications
\* ------------------------------------------------------------------------

vars ==
    << sendVars, cacheVars, parseVars, responseVars, buildVars, stepVars, crashVars,
       peerVars >>

Init ==
    /\ SendInit /\ CacheInit /\ ParseIdle /\ ResponseIdle /\ BuildIdle /\ StepIdle
    /\ CrashIdle /\ PeerIdle

\* One call of Request::send against an arbitrary server
Next ==
    SendNext /\ UNCHANGED << cacheVars, parseVars, responseVars, buildVars, stepVars,
                            crashVars, peerVars >>

Spec == Init /\ [][Next]_vars

\* One cache directory used by one process at a time (no send in progress)
CacheSpec ==
    /\ Init
    /\ request.url.scheme = "HTTP"
    /\ [][CacheNext /\ UNCHANGED << sendVars, parseVars, responseVars, buildVars, stepVars, crashVars, peerVars >>]_vars

\* Bodies and expiry handed to insert when the requests differ in headers
FingerprintBodies == { b \in Bodies : Len(b) = 1 }

FingerprintNext ==
    \/ \E clear_cache \in BOOLEAN : Initialize(clear_cache)
    \/ \E req \in FingerprintRequests, body \in FingerprintBodies,
          expiry \in Expiries :
           Insert(req, body, expiry)
    \/ \E req \in FingerprintRequests : Extract(req)

\* One cache directory, requests for one identifier built with different
\* header maps
FingerprintSpec ==
    /\ Init
    /\ request.url.scheme = "HTTP"
    /\ [][FingerprintNext /\ UNCHANGED << sendVars, parseVars, responseVars, buildVars, stepVars, crashVars, peerVars >>]_vars

\* One cache directory, one process at a time, that may die at any statement
\* of insert
CrashSpec ==
    /\ Init
    /\ request.url.scheme = "HTTP"
    /\ [][CrashNext /\ UNCHANGED << sendVars, parseVars, responseVars, buildVars,
                                    stepVars, peerVars >>]_vars

\* One cache directory used by two processes
TwoProcessSpec ==
    /\ Init
    /\ request.url.scheme = "HTTP"
    /\ [][TwoProcessNext /\ UNCHANGED << sendVars, parseVars, responseVars, buildVars,
                                         stepVars, crashVars >>]_vars

\* A text is about to be parsed (no send in progress, no cache in use)
ParseStart ==
    /\ SendInit /\ request.url.scheme = "HTTP"
    /\ CacheInit
    /\ ParseInit
    /\ ResponseIdle
    /\ BuildIdle
    /\ StepIdle
    /\ CrashIdle /\ PeerIdle

\* URI::parse applied once to a text
ParseSpec ==
    ParseStart /\ [][ParseNext /\ UNCHANGED << sendVars, cacheVars, responseVars, buildVars, stepVars, crashVars, peerVars >>]_vars

\* The bytes of a response are about to be parsed
ResponseStart ==
    /\ SendInit /\ request.url.scheme = "HTTP"
    /\ CacheInit
    /\ ParseIdle
    /\ ResponseInit
    /\ BuildIdle
    /\ StepIdle
    /\ CrashIdle /\ PeerIdle

\* Request::parse_http_response applied once to a buffer
ResponseSpec ==
    ResponseStart /\ [][ResponseNext /\ UNCHANGED << sendVars, cacheVars, parseVars, buildVars, stepVars, crashVars, peerVars >>]_vars

\* parse_http_response is called with a buffer
StepStart ==
    /\ SendInit /\ request.url.scheme = "HTTP"
    /\ CacheInit
    /\ ParseIdle
    /\ BuildIdle
    /\ StepInit
    /\ CrashIdle /\ PeerIdle

\* Request::parse_http_response, step by step; the thread that runs it is
\* never suspended for ever
StepSpec ==
    /\ StepStart
    /\ [][StepNext /\ UNCHANGED << sendVars, cacheVars, parseVars, buildVars, crashVars, peerVars >>]_vars
    /\ WF_vars(StepNext /\ UNCHANGED << sendVars, cacheVars, parseVars, buildVars,
                                       crashVars, peerVars >>)

\* A request is about to be built
BuildStart ==
    /\ SendInit /\ request.url.scheme = "HTTP"
    /\ CacheInit
    /\ ParseIdle
    /\ ResponseIdle
    /\ BuildInit
    /\ StepIdle
    /\ CrashIdle /\ PeerIdle

\* HTTPRequest::build applied once to a request
BuildSpec ==
    BuildStart /\ [][BuildNext /\ UNCHANGED << sendVars, cacheVars, parseVars, responseVars, stepVars, crashVars, peerVars >>]_vars

\* ------------------------------------------------------------------------
\* Properties of Request::send (checked under Spec)
\* ------------------------------------------------------------------------

\* The response is a parsed redirect (status 300..399)
RedirectReceived == response.kind = "ok" /\ response.status_code \in 300..399

\* The value begins with the scheme token http or https and its delimiter
HasHttpScheme(l) ==
    \/ StartsWith(l, << "h", "t", "t", "p", ":" >>)
    \/ StartsWith(l, << "h", "t", "t", "p", "s", ":" >>)

\* The Location value of the last response
LocationValue == response.headers["Location"]

\* Text of the examples: the paths /a/b/c and /a/b/y, http://o/y
Path_a_b_c == << "/", "a", "/", "b", "/", "c" >>
Path_a_b_y == << "/", "a", "/", "b", "/", "y" >>
Url_http_o_y == << "h", "t", "t", "p", ":", "/", "/", "o", "/", "y" >>

\* C1: send writes at most 5 requests (the first fetch and at most 4
\* follow-ups); once the counter has reached the bound the only way send
\* ends is the panic "Exceeded maximum redirect count" and nothing is
\* returned; that panic happens only after exactly 5 requests.
C1_AtMostFiveRequests ==
    /\ nSent <= MaxRedirects
    /\ redirect_count <= MaxRedirects
    /\ (redirect_count >= MaxRedirects) =>
           /\ outcome \in { "running", "TooManyRedirects" }
           /\ result = NoResponse
    /\ (pc = "done" /\ redirect_count >= MaxRedirects) => outcome = "TooManyRedirects"
    /\ (outcome = "TooManyRedirects") =>
           /\ pc = "done"
           /\ nSent = MaxRedirects
           /\ result = NoResponse

C1_Witness ==
    /\ pc = "done"
    /\ outcome = "TooManyRedirects"
    /\ nSent = 5
    /\ RedirectReceived

\* C2: when every attempt was answered by a 301 carrying a Location header,
\* send ends only with TooManyRedirects (it returns no response and ends in
\* no other way).
C2_Only301EndsInTooManyRedirects ==
    (pc = "done" /\ all301) => outcome = "TooManyRedirects"

\* C3: a response with a status in 300..399 is never returned; the first
\* parsed response with a status outside 300..399 ends send, which returns
\* that response, the reply to the last request written; and while send
\* goes on after a redirect, its request is the one built from the
\* redirected request and that response.
C3_RedirectRangeInclusive ==
    /\ RedirectReceived => outcome # "returned"
    /\ (response.kind = "ok" /\ response.status_code \notin 300..399) =>
           /\ pc = "done"
           /\ outcome = "returned"
           /\ result = response
    /\ (outcome = "returned") =>
           /\ pc = "done"
           /\ result = response
           /\ result.kind = "ok"
           /\ result.status_code \notin 300..399
    /\ (RedirectReceived /\ pc = "loop") =>
           /\ "Location" \in DOMAIN response.headers
           /\ redirect_count >= 1
           /\ request = build_request_from_redirect_response(answered, response).request

C3_Witness ==
    /\ outcome = "returned"
    /\ result.status_code = 400
    /\ nSent = 3
    /\ redirect_count = 2

\* C4: a parse error ends send with that error, and send goes on to another
\* request only after a parsed 3xx response.
C4_ParseErrorEndsFetch ==
    /\ (response.kind = "err") => (pc = "done" /\ result = ErrResponse)
    /\ (pc = "loop" /\ nSent > 0) => RedirectReceived

\* C5: after a redirect whose Location is an absolute http:// or https://
\* identifier, the scheme, host, port and path of the request are those of
\* URI::parse of the Location value, whatever request was redirected; for
\* Location http://o/y they are HTTP, o, 80 and /y.
C5_AbsoluteLocationReplacesUrl ==
    (/\ RedirectReceived
     /\ "Location" \in DOMAIN response.headers
     /\ \/ StartsWith(LocationValue, HTTP_SCHEME \o << ":", "/", "/" >>)
        \/ StartsWith(LocationValue, HTTPS_SCHEME \o << ":", "/", "/" >>))
    => /\ outcome \notin { "MissingLocation", "NoSlash", "ParsePanic" }
       /\ request.url.scheme = URI_parse(LocationValue).scheme
       /\ request.url.hostname = URI_parse(LocationValue).hostname
       /\ request.url.port = URI_parse(LocationValue).port
       /\ request.url.path = URI_parse(LocationValue).path
       /\ (LocationValue = Url_http_o_y) =>
              /\ request.url.scheme = "HTTP"
              /\ request.url.hostname = << "o" >>
              /\ request.url.port = << "8", "0" >>
              /\ request.url.path = << "/", "y" >>

C5_Witness ==
    /\ RedirectReceived
    /\ "Location" \in DOMAIN response.headers
    /\ LocationValue = Url_http_o_y
    /\ answered.url.scheme = "HTTPS"
    /\ answered.url.hostname = << "h" >>
    /\ answered.url.port = << "8" >>
    /\ request.url.scheme = "HTTP"
    /\ request.url.hostname = << "o" >>

\* C6: after a redirect with a relative Location L, applied to a request
\* of path P: the new path is L when P is empty, and otherwise the part of
\* P before its last "/" followed by L, unchanged ("/y" against "/a/b/c"
\* gives "/a/b/y").
C6_RelativeLocationSplicedAfterLastSlash ==
    (/\ RedirectReceived
     /\ "Location" \in DOMAIN response.headers
     /\ ~ HasHttpScheme(LocationValue)
     /\ outcome # "NoSlash")
    => LET P == answered.url.path
           L == LocationValue
       IN  /\ (P = << >>) => request.url.path = L
           /\ (P # << >>) =>
                  \E i \in 1..Len(P) :
                      /\ P[i] = "/"
                      /\ \A j \in (i + 1)..Len(P) : P[j] # "/"
                      /\ request.url.path = SubSeq(P, 1, i - 1) \o L
           /\ (P = Path_a_b_c /\ L = << "/", "y" >>) => request.url.path = Path_a_b_y

\* C7: a parsed response with a status in 300..399 and no Location header
\* ends send with the panic "Redirect response without Location header":
\* nothing is returned and no request is built or sent after it.
C7_MissingLocationIsFatal ==
    /\ (RedirectReceived /\ "Location" \notin DOMAIN response.headers) =>
           /\ pc = "done"
           /\ outcome = "MissingLocation"
           /\ result = NoResponse
           /\ request = answered
    /\ (outcome = "MissingLocation") =>
           /\ RedirectReceived
           /\ "Location" \notin DOMAIN response.headers

C7_Witness ==
    /\ outcome = "MissingLocation"
    /\ response.status_code = 399
    /\ nSent = 2
    /\ pc = "done"

\* C8: every request written to a connection carries Connection: close,
\* User-Agent, Accept-Encoding: gzip and a Host header equal to the host of
\* the identifier it is sent to.
C8_HeadersMatchTarget ==
    (nSent > 0) =>
        /\ DOMAIN lastSent.headers =
               { "Host", "Connection", "User-Agent", "Accept-Encoding" }
        /\ lastSent.headers["Connection"] = "close"
        /\ lastSent.headers["User-Agent"] = "Bored Browser"
        /\ lastSent.headers["Accept-Encoding"] = "gzip"
        /\ lastSent.headers["Host"] = lastSent.url.hostname

\* ------------------------------------------------------------------------
\* Properties of the cache (checked under CacheSpec)
\* ------------------------------------------------------------------------

\* C9: extract(request) right after insert(request, body, expiry), for a
\* GET request, returns exactly body, in every state of the cache.
C9_InsertThenExtractReturnsBody ==
    (/\ lastOp.op = "extract"
     /\ lastOp.after # << >>
     /\ lastOp.req.method = "GET")
    => /\ lastOp.result.kind = "Ok"
       /\ lastOp.result.data = lastOp.after[1]

\* C10: extract fails with UnsupportedMethod exactly for the requests whose
\* method is not GET; in that case it reads no body file and changes
\* neither the index nor the directory.
C10_State ==
    (lastOp.op = "extract") =>
        /\ (lastOp.result.kind = "UnsupportedMethod") <=> (lastOp.req.method # "GET")
        /\ (lastOp.req.method # "GET") => lastOp.result.read = ""

C10_Step ==
    (/\ lastOp'.op = "extract"
     /\ lastOp' # lastOp
     /\ lastOp'.req.method # "GET")
    => UNCHANGED << started, dirExists, files, control, items >>

C10_UnsupportedMethod == [] C10_State /\ [][C10_Step]_vars

C10_Witness ==
    /\ lastOp.op = "extract"
    /\ lastOp.req.method = "POST"
    /\ lastOp.result.kind = "UnsupportedMethod"
    /\ FirstMatch(items, hash_from(lastOp.req), 1) > 0
    /\ hash_from(lastOp.req) \in DOMAIN files

\* ------------------------------------------------------------------------
\* Properties of the fingerprint (checked under FingerprintSpec)
\* ------------------------------------------------------------------------

\* The header mapping of a request: its set of (name, value) pairs
HeaderMap(req) == { req.headers[i] : i \in 1..Len(req.headers) }

\* A lookup that comes right after an insert for the same identifier made
\* with another header map
LookupAfterInsertOfSameIdentifier ==
    /\ lastOp.op = "extract"
    /\ lastOp.prior # << >>
    /\ IsReadMethod(lastOp.req.method)

\* C11: the fingerprint depends only on the identifier: a lookup that
\* follows an insert for the same identifier made with other header names
\* or values computes the same fingerprint and finds the entry.
C11_FingerprintIgnoresHeaders ==
    ( /\ LookupAfterInsertOfSameIdentifier
      /\ HeaderMap(lastOp.prior[1]) # HeaderMap(lastOp.req) )
        => /\ hash_from(lastOp.prior[1]) = hash_from(lastOp.req)
           /\ lastOp.result.kind = "Ok"

\* C12: the fingerprint is deterministic: a lookup that follows an insert
\* for the same identifier with an equal header mapping, held by another
\* map instance with another iteration order, computes the same
\* fingerprint and finds the entry.
C12_FingerprintIndependentOfIterationOrder ==
    ( /\ LookupAfterInsertOfSameIdentifier
      /\ HeaderMap(lastOp.prior[1]) = HeaderMap(lastOp.req) )
        => /\ hash_from(lastOp.prior[1]) = hash_from(lastOp.req)
           /\ lastOp.result.kind = "Ok"

\* ------------------------------------------------------------------------
\* Properties of the index and the control file (checked under CacheSpec)
\* ------------------------------------------------------------------------

\* text is one "expiry;fingerprint" record per entry, in the order of the
\* entries, separated by line feeds, and nothing else
IsSerialisationOf(text, entries) ==
    /\ Len(text) = IF entries = << >> THEN 0 ELSE 4 * Len(entries) - 1
    /\ \A i \in 1..Len(entries) :
          /\ text[4 * i - 3] = FormatU64(entries[i].expiry)
          /\ text[4 * i - 2] = ";"
          /\ text[4 * i - 1] = entries[i].path_string
          /\ i < Len(entries) => text[4 * i] = "\n"

IsPrefix(s, t) == Len(s) <= Len(t) /\ SubSeq(t, 1, Len(s)) = s

\* C13: Cache::initialize(clear): a missing directory is created with an
\* empty control file and the index is empty; an existing directory with
\* clear = true loses all body files and records and the index is empty;
\* with clear = false nothing on disk changes, the index is the records of
\* the control file in file order, and it holds every entry the process
\* before the restart had inserted.
C13_InitializeStep ==
    ( lastOp'.op = "initialize" /\ lastOp' # lastOp ) =>
        /\ dirExists' /\ started'
        /\ IF ~ dirExists
           THEN files' = NoFiles /\ control' = << >> /\ items' = << >>
           ELSE IF lastOp'.clear
           THEN files' = NoFiles /\ control' = << >> /\ items' = << >>
           ELSE /\ files' = files /\ control' = control
                /\ IsSerialisationOf(control, items')
                /\ started => items' = items

C13_Initialize == [][C13_InitializeStep]_vars

\* A restart with clear = false that loaded two entries
C13_Witness ==
    /\ lastOp.op = "initialize" /\ ~ lastOp.clear
    /\ Len(items) = 2 /\ items[1] # items[2]

\* C14: after every insert the control file is exactly the index, one
\* "expiry;fingerprint" record per line in insertion order, without stale
\* or extra bytes.
C14_ControlFileIsIndex ==
    lastOp.op = "insert" => IsSerialisationOf(control, items)

\* An insert that made the index two entries long
C14_Witness ==
    /\ lastOp.op = "insert"
    /\ Len(items) = 2 /\ items[1].expiry # items[2].expiry
    /\ Len(control) = 7

\* C15: an entry of the index keeps its expiry, fingerprint and position
\* over every later step; the index loses entries only when initialize
\* runs with clear = true and empties it.
C15_EntriesStayStep ==
    \/ IsPrefix(items, items')
    \/ lastOp'.op = "initialize" /\ lastOp'.clear /\ items' = << >>

C15_EntriesStay == [][C15_EntriesStayStep]_vars

\* A lookup found an entry that was followed by another insert
C15_Witness ==
    /\ lastOp.op = "extract" /\ lastOp.result.kind = "Ok"
    /\ Len(items) = 2
    /\ lastOp.result.read = items[1].path_string
    /\ items[2].path_string # items[1].path_string

\* ------------------------------------------------------------------------
\* Properties of URI::parse (checked under ParseSpec)
\* ------------------------------------------------------------------------

\* The identifiers of the grammar scheme ":" ["//"] host [":" port]
\* ["/" path] for http and https: the scheme, whether "//" follows, the
\* host, the port (empty: none given) and the rest (empty or from "/")
HttpCases ==
    [ scheme : { HTTP_SCHEME, HTTPS_SCHEME },
      slashes : SlashTexts,
      host : { << "h" >> },
      port : { << >>, << "9" >> },
      rest : Rests ]

CaseText(c) ==
    c.scheme \o Colon \o c.slashes \o c.host
        \o (IF c.port = << >> THEN << >> ELSE Colon \o c.port) \o c.rest

HttpIdentifiers == { CaseText(c) : c \in HttpCases }

\* file and data identifiers: the scheme and any remainder
FileDataIdentifiers ==
    { s \o Colon \o sl \o hp \o r :
        s \in { FILE_SCHEME, DATA_SCHEME }, sl \in SlashTexts,
        hp \in HostParts, r \in Rests }

\* The identifiers of the grammar, plain or wrapped in view-source
Identifiers ==
    { w \o t : w \in Wrappers, t \in HttpIdentifiers \cup FileDataIdentifiers }

ViewSource(t) == VIEWSOURCE_PREFIX \o Colon \o t

HttpLikeSchemes == { "HTTP", "HTTPS", "ViewSourceHTTP", "ViewSourceHTTPS" }

\* C16: for every identifier that parse accepts, host and port are there
\* exactly if the scheme is http or https, plain or wrapped in
\* view-source; file and data identifiers have an empty host and an empty
\* port.
C16_AuthorityIffHttp ==
    ( parsed.done /\ input \in Identifiers /\ parsed.uri.ok ) =>
        /\ ( parsed.uri.hostname # << >> /\ parsed.uri.port # << >> )
               <=> parsed.uri.scheme \in HttpLikeSchemes
        /\ parsed.uri.scheme \in { "File", "Data" }
               => parsed.uri.hostname = << >> /\ parsed.uri.port = << >>
        /\ parsed.uri.scheme \in HttpLikeSchemes
               <=> \E t \in HttpIdentifiers : input \in { t, ViewSource(t) }

\* A file identifier with "//", a colon and slashes, accepted without host
C16_Witness ==
    /\ parsed.done /\ parsed.uri.ok
    /\ input = FILE_SCHEME \o << ":", "/", "/", "h", ":", "9", "/", "x" >>
    /\ parsed.uri.scheme = "File" /\ parsed.uri.hostname = << >>

\* C17: for an http or https identifier parse strips a leading "//",
\* splits at the first "/" into host-part and rest, gives path = "/" +
\* rest, host = the host-part before ":", and port = the explicit port,
\* or 80 for http and 443 for https when none is given.
C17_HttpParts ==
    parsed.done =>
        \A c \in HttpCases :
            input = CaseText(c) =>
                /\ parsed.uri.ok
                /\ parsed.uri.scheme = IF c.scheme = HTTP_SCHEME THEN "HTTP" ELSE "HTTPS"
                /\ parsed.uri.hostname = c.host
                /\ parsed.uri.port =
                      IF c.port # << >> THEN c.port
                      ELSE IF c.scheme = HTTP_SCHEME THEN << "8", "0" >>
                      ELSE << "4", "4", "3" >>
                /\ parsed.uri.path =
                      IF c.rest = << >> THEN << "/" >> ELSE c.rest

\* https://h:9/x:y/z parsed: explicit port, a path with a colon and slashes
C17_Witness ==
    /\ parsed.done /\ parsed.uri.ok
    /\ input = HTTPS_SCHEME \o << ":", "/", "/", "h", ":", "9" >>
                 \o << "/", "x", ":", "y", "/", "z" >>
    /\ parsed.uri.path = << "/", "x", ":", "y", "/", "z" >>

\* The texts that start with the http or the https scheme
HttpTexts ==
    { t \in ParseInputs :
        StartsWith(t, HTTP_SCHEME \o Colon) \/ StartsWith(t, HTTPS_SCHEME \o Colon) }

\* C18: for every http or https identifier u, parse("view-source:" + u)
\* gives the same host, port and path as parse(u).
C18_ViewSourceSameParts ==
    parsed.done =>
        \A u \in HttpTexts :
            input = ViewSource(u) =>
                /\ parsed.uri.ok /\ URI_parse(u).ok
                /\ parsed.uri.hostname = URI_parse(u).hostname
                /\ parsed.uri.port = URI_parse(u).port
                /\ parsed.uri.path = URI_parse(u).path

\* view-source:https://h/x parsed: the default port of https
C18_Witness ==
    /\ parsed.done /\ parsed.uri.ok
    /\ input = ViewSource(HTTPS_SCHEME \o << ":", "/", "/", "h", "/", "x" >>)
    /\ parsed.uri.port = << "4", "4", "3" >>

\* C19: the scheme of a parsed view-source identifier is the scheme parse
\* gives for the unwrapped http or https identifier.
C19_ViewSourceSchemeIsNested ==
    parsed.done =>
        \A u \in HttpIdentifiers :
            input = ViewSource(u) =>
                parsed.uri.ok /\ parsed.uri.scheme = URI_parse(u).scheme

\* C19 as amended: the scheme of a parsed view-source identifier is a
\* value of its own, ViewSourceHTTP around http and ViewSourceHTTPS around
\* https, which is not the scheme parse gives for the unwrapped identifier.
C19_ViewSourceSchemeIsOwnValue ==
    parsed.done =>
        \A u \in HttpIdentifiers :
            input = ViewSource(u) =>
                /\ parsed.uri.ok /\ URI_parse(u).ok
                /\ URI_parse(u).scheme \in { "HTTP", "HTTPS" }
                /\ parsed.uri.scheme =
                      IF URI_parse(u).scheme = "HTTP"
                      THEN "ViewSourceHTTP" ELSE "ViewSourceHTTPS"
                /\ parsed.uri.scheme # URI_parse(u).scheme

\* view-source:http://h:9 parsed
C19_Witness ==
    /\ parsed.done /\ parsed.uri.ok
    /\ input = ViewSource(HTTP_SCHEME \o << ":", "/", "/", "h", ":", "9" >>)
    /\ parsed.uri.scheme = "ViewSourceHTTP"

Digits == { "0", "1", "2", "3", "4", "5", "6", "7", "8", "9" }

RecognisedSchemeTokens ==
    { HTTP_SCHEME, HTTPS_SCHEME, FILE_SCHEME, DATA_SCHEME, VIEWSOURCE_PREFIX }

\* The text has no colon, or the token before its first colon is not a
\* recognised scheme
NoRecognisedScheme(t) ==
    \/ \A i \in 1..Len(t) : t[i] # ":"
    \/ \E i \in 1..Len(t) :
          /\ t[i] = ":"
          /\ \A j \in 1..(i - 1) : t[j] # ":"
          /\ SubSeq(t, 1, i - 1) \notin RecognisedSchemeTokens

\* The text is an http or https identifier, plain or wrapped, but for an
\* explicit port that is not a number
HasNonNumericPort(t) ==
    \E w \in Wrappers, sc \in { HTTP_SCHEME, HTTPS_SCHEME }, sl \in SlashTexts,
       r \in Rests, p \in { << "x" >> } :
        /\ \E i \in 1..Len(p) : p[i] \notin Digits
        /\ t = w \o sc \o Colon \o sl \o << "h" >> \o Colon \o p \o r

\* C20: parse fails, and returns no identifier, when the text has no
\* scheme-delimiting colon, when its scheme token is not recognised, or
\* when an explicit port is not numeric.
C20_MalformedIsRejected ==
    ( parsed.done /\ ( NoRecognisedScheme(input) \/ HasNonNumericPort(input) ) )
        => ~ parsed.uri.ok

\* The text with one leading "//" removed, if there is one
StripSlashes(t) ==
    IF StartsWith(t, << "/", "/" >>) THEN SubSeq(t, 3, Len(t)) ELSE t

\* C21: for a file or data identifier the path is the remainder after the
\* scheme colon verbatim (for file after one leading "//" is stripped),
\* also when the remainder begins with or contains ":" or "/".
C21_FileDataPathVerbatim ==
    parsed.done =>
        \A sc \in { FILE_SCHEME, DATA_SCHEME }, sl \in SlashTexts,
           hp \in HostParts, r \in Rests :
            input = sc \o Colon \o sl \o hp \o r =>
                /\ parsed.uri.ok
                /\ parsed.uri.path =
                      IF sc = FILE_SCHEME
                      THEN StripSlashes(sl \o hp \o r) ELSE sl \o hp \o r

\* C22: parsing view-source: followed by a file or data identifier
\* succeeds and gives the path of the nested identifier.
C22_ViewSourceOverFileDataSucceeds ==
    parsed.done =>
        \A t \in FileDataIdentifiers :
            input = ViewSource(t) =>
                /\ parsed.uri.ok
                /\ URI_parse(t).ok => parsed.uri.path = URI_parse(t).path

\* ------------------------------------------------------------------------
\* Properties of Request::parse_http_response (checked under ResponseSpec)
\* ------------------------------------------------------------------------

\* The data of the chunks one after the other
RECURSIVE Concat(_)
Concat(chunks) ==
    IF chunks = << >> THEN << >> ELSE chunks[1] \o Concat(Tail(chunks))

\* C23: for a well-formed chunked body (size line in hexadecimal, that many
\* bytes, a two-byte terminator, ended by a chunk of size zero) the decoded
\* body is the data of the chunks in order.
C23_ChunkedBodyIsConcatenation ==
    http_response.done =>
        \A k \in ChunkLists \cup LargeChunkLists :
            data_buffer = ChunkedHead \o ChunkedBody(k) =>
                /\ http_response.value.kind = "Ok"
                /\ http_response.value.data = Concat(k)

\* C24: the first chunk of size zero ends the chunked body: bytes that
\* follow it are not appended to the body and not read as a size line.
C24_ZeroChunkEndsBody ==
    http_response.done =>
        \A k \in ChunkLists, more \in { TrailingChunk, << "Z" >> \o CRLF } :
            data_buffer = ChunkedHead \o ChunkedBody(k) \o more =>
                /\ http_response.value.kind = "Ok"
                /\ http_response.value.data = Concat(k)

\* Two results frame and decode the body alike
SameBody(a, b) == a.kind = b.kind /\ (a.kind = "Ok" => a.data = b.data)

\* C25: a response that spells Transfer-Encoding, Content-Encoding or
\* Location in another letter case is framed and decoded like the one
\* with the canonical spelling, and its Location is found.
C25_HeaderNamesIgnoreCase ==
    http_response.done =>
        /\ \A b \in ResponseBodies :
              /\ data_buffer = StatusLineOK \o LowerChunkedHeader \o CRLF \o b =>
                    SameBody(http_response.value,
                             parse_http_response(ChunkedHead \o b))
              /\ data_buffer = StatusLineOK \o LowerGzipHeader \o CRLF \o b =>
                    SameBody(http_response.value,
                             parse_http_response(StatusLineOK \o GzipHeader \o CRLF \o b))
        /\ data_buffer = StatusLineOK \o UpperLocationHeader \o CRLF =>
              /\ http_response.value.kind = "Ok"
              /\ Header_Location \in DOMAIN http_response.value.headers

\* C26: a Transfer-Encoding header with another value than chunked, or a
\* Content-Encoding header with another value than gzip, in whatever letter
\* case the name is spelled, makes the parse fail: no response is produced.
C26_UnknownEncodingIsFatal ==
    http_response.done =>
        \A sl \in StatusLines,
           hb \in { IdentityHeader, BrHeader, LowerIdentityHeader },
           b \in ResponseBodies :
            data_buffer = sl \o hb \o CRLF \o b =>
                http_response.value.kind \in { "Panic", "Err" }

\* C27: the parse fails for every status line whose first token does not
\* start with HTTP/; when it succeeds the version is the part of that
\* token after the leading HTTP/.
C27_StatusLineStartsWithHttp ==
    http_response.done =>
        \A sl \in StatusLines :
            StartsWith(data_buffer, sl) =>
                LET token == SplitOnceOr(sl, " ")[1]
                IN  /\ ~ StartsWith(token, Text_HTTP_slash)
                          => http_response.value.kind # "Ok"
                    /\ http_response.value.kind = "Ok"
                          => http_response.value.http_version
                                 = SubSeq(token, Len(Text_HTTP_slash) + 1, Len(token))

\* C28: every response has a status code in 100..599; a status line with a
\* code outside of it, or without a number, gives no response.
C28_StatusCodeInRange ==
    ( http_response.done /\ http_response.value.kind = "Ok" ) =>
        http_response.value.status_code \in 100..599

\* Header lines with neither a Transfer-Encoding nor a Content-Encoding
\* header
PlainHeaderBlocks == { << >>, LocationHeader, UpperLocationHeader }

\* C29: without a Transfer-Encoding header the body is all the bytes after
\* the empty line that ends the headers; without a Content-Encoding header
\* these bytes are returned as text when they are UTF-8, and the parse
\* fails when they are not.
C29_PlainBodyIsRestOfBuffer ==
    http_response.done =>
        \A hb \in PlainHeaderBlocks, b \in ResponseBodies :
            data_buffer = StatusLineOK \o hb \o CRLF \o b =>
                IF Utf8Decode(b).ok
                THEN /\ http_response.value.kind = "Ok"
                     /\ http_response.value.data = Utf8Decode(b).text
                ELSE http_response.value.kind \in { "Panic", "Err" }

\* A body of three bytes became a text of two characters, and a body that
\* looks chunked was returned whole
C29_Witness ==
    /\ http_response.done
    /\ http_response.value.kind = "Ok"
    /\ \/ /\ data_buffer = StatusLineOK \o CRLF \o << "h", "C3", "A9" >>
          /\ http_response.value.data = << "h", "U+E9" >>
       \/ /\ data_buffer = StatusLineOK \o LocationHeader \o CRLF
                                \o ChunkedBody(<< >>) \o TrailingChunk
          /\ http_response.value.data = ChunkedBody(<< >>) \o TrailingChunk

\* ------------------------------------------------------------------------
\* Properties of HTTPRequest::build (checked under BuildSpec)
\* ------------------------------------------------------------------------

\* The eight methods, spelled in upper case
UpperCaseName ==
    [ m \in HTTPMethods |->
        CASE m = "CONNECT" -> << "C", "O", "N", "N", "E", "C", "T" >>
          [] m = "DELETE"  -> << "D", "E", "L", "E", "T", "E" >>
          [] m = "GET"     -> << "G", "E", "T" >>
          [] m = "HEAD"    -> << "H", "E", "A", "D" >>
          [] m = "OPTIONS" -> << "O", "P", "T", "I", "O", "N", "S" >>
          [] m = "POST"    -> << "P", "O", "S", "T" >>
          [] m = "PUT"     -> << "P", "U", "T" >>
          [] m = "TRACE"   -> << "T", "R", "A", "C", "E" >> ]

\* The request line of a request
RequestLine(req) ==
    UpperCaseName[req.method] \o << " " >> \o req.url.path
        \o << " ", "H", "T", "T", "P", "/" >> \o req.http_version \o CRLF

\* The header lines of the keys in ks, one line a key, in the order of ks
RECURSIVE HeaderLines(_, _)
HeaderLines(hdrs, ks) ==
    IF ks = << >>
    THEN << >>
    ELSE HeaderLine(ks[1], hdrs[ks[1]]) \o HeaderLines(hdrs, Tail(ks))

\* C30: build gives the request line, then every header of the request
\* exactly once as a line "key: value" in some order, then two line
\* terminators; the data of the request is not in the output.
C30_BuildIsRequestLineAndHeaders ==
    request_text.done =>
        \E ks \in [ 1..Cardinality(DOMAIN http_request.headers)
                       -> DOMAIN http_request.headers ] :
            /\ \A k \in DOMAIN http_request.headers :
                   Cardinality({ i \in DOMAIN ks : ks[i] = k }) = 1
            /\ request_text.value
                   = RequestLine(http_request)
                         \o HeaderLines(http_request.headers, ks) \o CRLF \o CRLF

\* A POST with three headers and data was built, Connection first
C30_Witness ==
    /\ request_text.done
    /\ http_request.method = "POST"
    /\ http_request.data = << "q", "=", "1" >>
    /\ Cardinality(DOMAIN http_request.headers) = 3
    /\ StartsWith(request_text.value,
                  RequestLine(http_request) \o Key_Connection \o << ":", " " >>)

\* ------------------------------------------------------------------------
\* Properties of Request::parse_http_response, step by step (StepSpec)
\* ------------------------------------------------------------------------

\* C31: parse_http_response terminates on every buffer, also on a buffer
\* that ends before the empty line that closes the headers: it returns a
\* response or fails.
C31_ParseTerminates == <>(http_response.done)

\* ------------------------------------------------------------------------
\* Further properties of Request::send (checked under Spec)
\* ------------------------------------------------------------------------

\* A redirect with a Location was received and send goes on with the
\* request built from it
RedirectFollowed ==
    /\ RedirectReceived
    /\ "Location" \in DOMAIN response.headers
    /\ pc = "loop"

\* C32: following a relative redirect changes only the path: scheme, host,
\* port, method, version, headers and body of the new request are those of
\* the request that was redirected.
C32_RelativeRedirectChangesOnlyPath ==
    (RedirectFollowed /\ ~ HasHttpScheme(LocationValue)) =>
        /\ request.url.scheme = answered.url.scheme
        /\ request.url.hostname = answered.url.hostname
        /\ request.url.port = answered.url.port
        /\ request.method = answered.method
        /\ request.http_version = answered.http_version
        /\ request.headers = answered.headers
        /\ request.data = answered.data

\* C33: the path of the request written to a connection on every attempt
\* begins with "/", whatever relative and absolute Location values the
\* server returns.
C33_TransmittedPathBeginsWithSlash ==
    (nSent > 0) => StartsWith(lastSent.url.path, << "/" >>)

\* The path P with the Location L resolved against it as a relative path
ResolvedPath(P, L) ==
    IF P = << >>
    THEN L
    ELSE LET i == CHOOSE k \in 0..Len(P) :
                      /\ k > 0 => P[k] = "/"
                      /\ \A j \in (k + 1)..Len(P) : P[j] # "/"
         IN  SubSeq(P, 1, i - 1) \o L

\* C34: a Location is treated as absolute only when it begins with http:
\* or https:; a value without a scheme delimiter, also one whose first
\* letters are http, is resolved as a path against the current path and the
\* host stays.
C34_AbsoluteOnlyWithSchemeDelimiter ==
    (RedirectFollowed /\ ~ Contains(LocationValue, ":")) =>
        /\ request.url.hostname = answered.url.hostname
        /\ request.url.path = ResolvedPath(answered.url.path, LocationValue)

\* ------------------------------------------------------------------------
\* Properties of the cache when a process dies (checked under CrashSpec)
\* ------------------------------------------------------------------------

\* The file names that an index lists
NamesOf(entries) == { entries[i].path_string : i \in DOMAIN entries }

\* The file names that the control file lists
ListedNames(contents) == NamesOf(read_cache_control(contents).items)

\* C35: at every point during and after insert, also when the process dies
\* between two statements of it, every fingerprint in the index in memory
\* or in the control file has a body file of that name in the directory.
C35_ListedBodiesExist ==
    \A n \in NamesOf(items) \cup ListedNames(control) : n \in DOMAIN files

\* The process died after write_file and before the control file was
\* rewritten: a body file that the control file does not list
C35_Witness ==
    /\ ~ started
    /\ insert_pc = 0
    /\ \E n \in DOMAIN files : n \notin ListedNames(control)
    /\ ListedNames(control) # {}

\* ------------------------------------------------------------------------
\* Properties of the index (checked under CacheSpec)
\* ------------------------------------------------------------------------

\* No two entries of an index have the same file name
OnePerName(entries) ==
    \A i, j \in DOMAIN entries :
        entries[i].path_string = entries[j].path_string => i = j

\* C36: after any sequence of inserts, the index in memory and the control
\* file hold at most one entry for each fingerprint.
C36_OneEntryPerFingerprint ==
    started =>
        /\ OnePerName(items)
        /\ OnePerName(read_cache_control(control).items)

\* ------------------------------------------------------------------------
\* Properties of a shared directory (checked under TwoProcessSpec)
\* ------------------------------------------------------------------------

\* The control file does not hold the entry of a file name: it cannot be
\* read, or it does not list the name
OmittedOrGarbled(n) ==
    \/ ~ read_cache_control(control).ok
    \/ n \notin ListedNames(control)

\* Both processes read the same control file at initialize, and each has
\* since inserted one body, under two different names new to that control
\* file; both body files are in the directory
BothInserted ==
    /\ started /\ peer_started
    /\ seen = peer_seen
    /\ Len(inserted) = 1 /\ Len(peer_inserted) = 1
    /\ inserted[1] # peer_inserted[1]
    /\ { inserted[1], peer_inserted[1] } \cap ListedNames(seen) = {}
    /\ { inserted[1], peer_inserted[1] } \subseteq DOMAIN files

\* C37: when two processes that initialised from the same directory each
\* insert, the control file afterwards omits or garbles the entry of a body
\* file that was written.
C37_SharedDirectoryLosesEntry ==
    BothInserted =>
        \E n \in { inserted[1], peer_inserted[1] } :
            n \in DOMAIN files /\ OmittedOrGarbled(n)

\* Both processes inserted, and the control file can be read but lists only
\* one of the two names
C37_Witness ==
    /\ BothInserted
    /\ read_cache_control(control).ok
    /\ \E n \in { inserted[1], peer_inserted[1] } : n \notin ListedNames(control)
    /\ \E n \in { inserted[1], peer_inserted[1] } : n \in ListedNames(control)

====
